---- MODULE Spec2Model ----
(***************************************************************************)
(* Model of the lz-app status tracking code.                               *)
(*                                                                         *)
(*   Spec        the Home component's status polling (page component):    *)
(*               sendCrossChain publishes a txHash, the polling effect    *)
(*               starts ticks, each tick fetches the aggregator status    *)
(*               and then the worker status and merges them by rank.      *)
(*   SpecOnchain the POST handler of /api/lz-status-onchain run against a *)
(*               destination chain whose logs grow.                       *)
(*   SpecMerge   the worker-status reducer fed one list of stages in two  *)
(*               different orders.                                        *)
(*   SpecSend    one browser session of the Home component: token         *)
(*               selection, the balance effect and runs of sendCrossChain *)
(*               step by step (each await is a step).                     *)
(*   SpecParam   buildSendParam applied to one amount string.             *)
(*   SpecAgg     the page polling through the POST /api/agg-status proxy. *)
(*   SpecConfig  lib/config loaded in one environment.                    *)
(*   SpecFee     the estimate-fee handler answering one request.          *)
(*   SpecOptions buildLzReceiveOptions applied to one gas and value.      *)
(*   SpecScanner deriveWorkerStage of /api/lz-status applied to one       *)
(*               scanner message.                                         *)
(***************************************************************************)
EXTENDS Integers, Sequences, FiniteSets, TLC

(* ---------------------------- bounds ---------------------------------- *)
\* number of transfers (distinct source transaction hashes) one run submits
MaxTransfers == 2
\* number of ticks whose fetches are outstanding at the same time
MaxInflight == 2
\* number of stages fed to one slot in the merge check
MaxFeed == 3
\* number of logs on the destination chain
MaxLogs == 2
\* highest block number at which the source transaction is mined
MaxSrcBlock == 2
\* highest token balance (in base units) the chain returns
MaxBalance == 1
\* number of balance fetches outstanding at the same time
MaxPending == 1
\* highest decimals value passed to buildSendParam on its own
MaxDecimals == 3

VARIABLES
    txHash,          \* React state txHash: NoHash ("") or the hash of the last submitted transfer
    aggStatus,       \* React state aggStatus: Null or the aggregator JSON last published
    lzWorkerStatus,  \* React state lzWorkerStatus: Null or the worker status last published
    isSending,       \* React state isSending (the send button's loading flag)
    sendRunning,     \* a run of sendCrossChain is between setIsSending(true) and its end
    stopped,         \* the `stopped` flag of the polling effect instance of txHash
    inflight,        \* ticks awaiting a fetch: [hash captured by the tick][phase] -> count
    nSent,           \* number of transactions submitted so far (the next hash is nSent + 1)
    lastFetch        \* the fetch outcome the last step handled, NoFetch for any other step

clientVars == <<txHash, aggStatus, lzWorkerStatus, isSending, sendRunning, stopped, inflight, nSent, lastFetch>>

VARIABLES
    feedA,           \* worker statuses still to be fed to slotA, in order
    feedB,           \* the same statuses in another order, still to be fed to slotB
    slotA,           \* a lzWorkerStatus slot
    slotB            \* a second lzWorkerStatus slot

mergeVars == <<feedA, feedB, slotA, slotB>>

VARIABLES
    srcReceipt,      \* receipt of the polled transaction on the source chain, Null until mined
    dstHeight,       \* block number of the destination chain (blocks without logs are left out)
    dstLogs,         \* logs of the destination chain, oldest first
    response         \* the response of POST /api/lz-status-onchain when the last step was a request

onchainVars == <<srcReceipt, dstHeight, dstLogs, response>>

VARIABLES
    tokenId,          \* React state tokenId: "" or the id of the selected token
    balanceWei,       \* React state balanceWei: Null or the balance last fetched
    balanceFormatted, \* React state balanceFormatted: "" or that balance formatted
    balanceFor,       \* the token whose balance balanceWei holds ("" when Null)
    pendingBalance,   \* balance fetches in flight: [token captured by the effect] -> count
    underlyingDecimals, \* decimals() of the ERC-20 under the OFT of token 'default'
    run,              \* the current (or last finished) run of sendCrossChain
    statusText,         \* React state status: the text shown under the send button
    waiting,          \* hashes of the transactions whose tx.wait() is pending
    paramIn,          \* arguments of one buildSendParam call
    paramOut          \* its result, None before the call

sessionVars == <<tokenId, balanceWei, balanceFormatted, balanceFor, pendingBalance, underlyingDecimals, run, statusText, waiting>>
paramVars == <<paramIn, paramOut>>
sendVars == <<sessionVars, paramVars>>

VARIABLES
    feeRequest,      \* the request POST /api/estimate-fee handled last, with its environment
    feeReply,        \* the response it returned
    optionsIn,       \* arguments of one buildLzReceiveOptions call
    optionsOut,      \* the hex string it returned and what the executor decodes from it
    scannerMessage,  \* a message of the scanner API handed to deriveWorkerStage
    workerStage,     \* the stage deriveWorkerStage returned for it
    env,             \* process.env: the NEXT_PUBLIC_* variables read by the configuration
    loadedConfig   \* what getNetworksConfig / getNetworkConfig returned for env

feeVars == <<feeRequest, feeReply>>
optionsVars == <<optionsIn, optionsOut>>
scannerVars == <<scannerMessage, workerStage>>
configVars == <<env, loadedConfig>>
routeVars == <<feeVars, optionsVars, scannerVars, configVars>>

(* ----------------------- values of the client ------------------------- *)
NoHash == 0
Hashes == 1..MaxTransfers
\* null, and a value not computed yet
Null == [null |-> TRUE]
None == [none |-> TRUE]
Phases == {"agg", "worker"}
NoFetch == [src |-> "none"]

\* currentStatus values an aggregator response may carry; "" stands for a
\* missing or empty currentStatus (both are falsy)
AggNames == {"", "sent", "executed", "EXECUTED"}
\* stage and destination.status of a 2xx worker response: lz-status-onchain
\* returns inflight / verified / executed with NotFound / Verified / Delivered,
\* lz-status returns the scanner's stage and destination status (a message
\* the DVNs verified and no sealer committed is 'dvn_verifying' whatever its
\* destination status says); "" stands for a missing field
WorkerReplies ==
    { [stage |-> "", dest |-> ""],
      [stage |-> "inflight", dest |-> "NotFound"],
      [stage |-> "verified", dest |-> "Verified"],
      [stage |-> "executed", dest |-> "Delivered"],
      [stage |-> "sent", dest |-> ""],
      [stage |-> "dvn_verifying", dest |-> "DELIVERED"] }

\* String.prototype.toLowerCase on the names used here
toLowerCase(s) ==
    CASE s = "EXECUTED" -> "executed"
      [] s = "Delivered" -> "delivered"
      [] s = "DELIVERED" -> "delivered"
      [] s = "Verified" -> "verified"
      [] s = "NotFound" -> "notfound"
      [] OTHER -> s

order == <<"unknown", "sent", "dvn_verifying", "committed", "executing", "executed">>

\* Array.prototype.indexOf, 0-based, -1 when absent
indexOf(arr, x) ==
    IF \E i \in 1..Len(arr) : arr[i] = x
    THEN (CHOOSE i \in 1..Len(arr) : arr[i] = x /\ \A j \in 1..(i - 1) : arr[j] # x) - 1
    ELSE -1

\* getStatusRank(s): s is "" for undefined / null / empty
getStatusRank(s) ==
    LET idx == indexOf(order, toLowerCase(IF s = "" THEN "unknown" ELSE s))
    IN  IF idx = -1 THEN 0 ELSE idx

currentStatusOf(a) == IF a = Null THEN "" ELSE a.currentStatus
stageOf(w) == IF w = Null THEN "" ELSE w.stage
destOf(w) == IF w = Null THEN "" ELSE w.dest

\* setAggStatus(json) without the rank comparison
aggReducerNoRank(prev, json) == json

\* reducer passed to setAggStatus
aggReducer(prev, json) ==
    LET prevRank == getStatusRank(currentStatusOf(prev))
        newRank == getStatusRank(currentStatusOf(json))
    IN  IF prev = Null \/ newRank >= prevRank THEN json ELSE prev

\* setLzWorkerStatus(next) without the rank comparison
workerReducerNoRank(prev, next) == next

\* reducer passed to setLzWorkerStatus on a 2xx response
workerReducer(prev, next) ==
    LET prevRank == getStatusRank(stageOf(prev))
        newRank == getStatusRank(stageOf(next))
    IN  IF prev = Null \/ newRank >= prevRank THEN next ELSE prev

\* setLzWorkerStatus({ stage: 'unknown' }) whatever was published
workerOnErrorReset(prev, h) == [stage |-> "unknown", dest |-> "", forHash |-> h]

\* reducer passed to setLzWorkerStatus on a non-2xx response or a throw
workerOnError(prev, h) ==
    IF prev # Null THEN prev ELSE [stage |-> "unknown", dest |-> "", forHash |-> h]

\* the Status line of the page
visibleStatus ==
    IF currentStatusOf(aggStatus) # "" THEN currentStatusOf(aggStatus)
    ELSE IF stageOf(lzWorkerStatus) # "" THEN stageOf(lzWorkerStatus)
    ELSE "unknown"

\* the effect that stops the send button's loading state, run with the
\* values of one render (it runs when txHash, currentStatus, stage or dest
\* change)
stopLoading(h, a, w, sending) ==
    LET executedFromAgg == toLowerCase(currentStatusOf(a)) = "executed"
        executedFromWorker == \/ toLowerCase(stageOf(w)) = "executed"
                              \/ toLowerCase(destOf(w)) = "delivered"
    IN  IF h = NoHash THEN sending
        ELSE IF executedFromAgg \/ executedFromWorker THEN FALSE
        ELSE sending

totalInflight ==
    LET keys == Hashes \X Phases
        RECURSIVE sum(_)
        sum(S) == IF S = {} THEN 0
                  ELSE LET k == CHOOSE k \in S : TRUE
                       IN  inflight[k[1]][k[2]] + sum(S \ {k})
    IN  sum(keys)

addTick(f, h, p) == [f EXCEPT ![h][p] = @ + 1]
dropTick(f, h, p) == [f EXCEPT ![h][p] = @ - 1]

(* ----------------------- actions of the client ------------------------ *)
ClientInit ==
    /\ txHash = NoHash
    /\ aggStatus = Null
    /\ lzWorkerStatus = Null
    /\ isSending = FALSE
    /\ sendRunning = FALSE
    /\ stopped = TRUE
    /\ inflight = [h \in Hashes |-> [p \in Phases |-> 0]]
    /\ nSent = 0
    /\ lastFetch = NoFetch

\* sendCrossChain up to setIsSending(true): the button is disabled while
\* isSending
sendCrossChainStart ==
    /\ ~isSending
    /\ ~sendRunning
    /\ nSent < MaxTransfers
    /\ isSending' = TRUE
    /\ sendRunning' = TRUE
    /\ lastFetch' = NoFetch
    /\ UNCHANGED <<txHash, aggStatus, lzWorkerStatus, stopped, inflight, nSent>>
    /\ UNCHANGED <<mergeVars, onchainVars, sendVars, routeVars>>

\* sendCrossChain ends with setIsSending(false): no balance for 'max', token
\* without an address on the source network, or its catch block (signer,
\* quote or send error)
sendCrossChainFailed ==
    /\ sendRunning
    /\ sendRunning' = FALSE
    /\ isSending' = FALSE
    /\ lastFetch' = NoFetch
    /\ UNCHANGED <<txHash, aggStatus, lzWorkerStatus, stopped, inflight, nSent>>
    /\ UNCHANGED <<mergeVars, onchainVars, sendVars, routeVars>>

\* sendCrossChain returns from its amount validation (amount above the
\* balance, not positive, or unparsable): isSending is left as it is
sendCrossChainRejected ==
    /\ sendRunning
    /\ sendRunning' = FALSE
    /\ lastFetch' = NoFetch
    /\ UNCHANGED <<txHash, aggStatus, lzWorkerStatus, isSending, stopped, inflight, nSent>>
    /\ UNCHANGED <<mergeVars, onchainVars, sendVars, routeVars>>

\* sendCrossChain after the transaction was submitted: setTxHash(tx.hash),
\* setLzWorkerStatus(null), then the effects of the render with the new
\* txHash in declaration order: the polling effect (cleanup of the previous
\* instance, a new `stopped`, the first tick up to its fetch, the interval),
\* the effect stopping the loading state (it sees the aggStatus of that
\* render), the effect clearing aggStatus and lzWorkerStatus.
sendCrossChainSubmitted ==
    /\ sendRunning
    /\ totalInflight < MaxInflight
    /\ LET h == nSent + 1 IN
        /\ nSent' = h
        /\ txHash' = h
        /\ stopped' = FALSE
        /\ inflight' = addTick(inflight, h, "agg")
        /\ isSending' = stopLoading(h, aggStatus, Null, isSending)
        /\ aggStatus' = Null
        /\ lzWorkerStatus' = Null
    /\ sendRunning' = FALSE
    /\ lastFetch' = NoFetch
    /\ UNCHANGED <<mergeVars, onchainVars, sendVars, routeVars>>

\* disconnectWallet: setTxHash(""); the polling effect's cleanup runs, the
\* other effects return at `if (!txHash) return`
disconnectWallet ==
    /\ txHash # NoHash
    /\ txHash' = NoHash
    /\ stopped' = TRUE
    /\ lastFetch' = NoFetch
    /\ UNCHANGED <<aggStatus, lzWorkerStatus, isSending, sendRunning, inflight, nSent>>
    /\ UNCHANGED <<mergeVars, onchainVars, sendVars, routeVars>>

\* the setInterval callback: if (!stopped) tick(), up to the first fetch
intervalTick ==
    /\ txHash # NoHash
    /\ ~stopped
    /\ totalInflight < MaxInflight
    /\ inflight' = addTick(inflight, txHash, "agg")
    /\ lastFetch' = NoFetch
    /\ UNCHANGED <<txHash, aggStatus, lzWorkerStatus, isSending, sendRunning, stopped, nSent>>
    /\ UNCHANGED <<mergeVars, onchainVars, sendVars, routeVars>>

\* tick resumes after the aggregator fetch with a 2xx response whose JSON
\* carries currentStatus s, publishes it and issues the worker fetch
aggResponseOk(h, s) ==
    /\ inflight[h]["agg"] > 0
    /\ LET json == [currentStatus |-> s, forHash |-> h]
           na == aggReducer(aggStatus, json)
       IN  /\ aggStatus' = na
           /\ isSending' = IF currentStatusOf(na) # currentStatusOf(aggStatus)
                          THEN stopLoading(txHash, na, lzWorkerStatus, isSending)
                          ELSE isSending
    /\ lastFetch' = [src |-> "agg", ok |-> TRUE, name |-> s, hash |-> h]
    /\ stopped' = IF s = "executed" /\ h = txHash THEN TRUE ELSE stopped
    /\ inflight' = addTick(dropTick(inflight, h, "agg"), h, "worker")
    /\ UNCHANGED <<txHash, lzWorkerStatus, sendRunning, nSent>>
    /\ UNCHANGED <<mergeVars, onchainVars, sendVars, routeVars>>

\* tick resumes after the aggregator fetch failed (non-2xx, network error
\* or JSON decode error) and issues the worker fetch
aggResponseFail(h) ==
    /\ inflight[h]["agg"] > 0
    /\ inflight' = addTick(dropTick(inflight, h, "agg"), h, "worker")
    /\ lastFetch' = [src |-> "agg", ok |-> FALSE, name |-> "", hash |-> h]
    /\ UNCHANGED <<txHash, aggStatus, lzWorkerStatus, isSending, sendRunning, stopped, nSent>>
    /\ UNCHANGED <<mergeVars, onchainVars, sendVars, routeVars>>

\* tick resumes after the worker fetch with a 2xx response carrying stage s
\* and destination.status d
workerResponseOk(h, s, d) ==
    /\ inflight[h]["worker"] > 0
    /\ LET next == [stage |-> IF s = "" THEN "unknown" ELSE s, dest |-> d, forHash |-> h]
           nw == workerReducer(lzWorkerStatus, next)
       IN  /\ lzWorkerStatus' = nw
           /\ isSending' = IF stageOf(nw) # stageOf(lzWorkerStatus) \/ destOf(nw) # destOf(lzWorkerStatus)
                          THEN stopLoading(txHash, aggStatus, nw, isSending)
                          ELSE isSending
    /\ lastFetch' = [src |-> "worker", ok |-> TRUE, name |-> IF s = "" THEN "unknown" ELSE s,
                     dest |-> d, hash |-> h]
    /\ inflight' = dropTick(inflight, h, "worker")
    /\ UNCHANGED <<txHash, aggStatus, sendRunning, stopped, nSent>>
    /\ UNCHANGED <<mergeVars, onchainVars, sendVars, routeVars>>

\* tick resumes after the worker fetch failed: a non-2xx response, or a
\* throw caught by the outer catch
workerResponseFail(h) ==
    /\ inflight[h]["worker"] > 0
    /\ lzWorkerStatus' = workerOnError(lzWorkerStatus, h)
    /\ inflight' = dropTick(inflight, h, "worker")
    /\ lastFetch' = [src |-> "worker", ok |-> FALSE, name |-> "", hash |-> h]
    /\ UNCHANGED <<txHash, aggStatus, isSending, sendRunning, stopped, nSent>>
    /\ UNCHANGED <<mergeVars, onchainVars, sendVars, routeVars>>

ClientNext ==
    \/ sendCrossChainStart
    \/ sendCrossChainFailed
    \/ sendCrossChainRejected
    \/ sendCrossChainSubmitted
    \/ disconnectWallet
    \/ intervalTick
    \/ \E h \in Hashes, s \in AggNames : aggResponseOk(h, s)
    \/ \E h \in Hashes : aggResponseFail(h)
    \/ \E h \in Hashes, r \in WorkerReplies : workerResponseOk(h, r.stage, r.dest)
    \/ \E h \in Hashes : workerResponseFail(h)


(* --------------- the worker-status merge fed in two orders ------------ *)
Feeds == UNION {[1..n -> (({r.stage : r \in WorkerReplies} \ {""}) \cup {"unknown"})] : n \in 0..MaxFeed}




\* one 2xx worker response published to slotA
feedSlotA ==
    /\ feedA # <<>>
    /\ slotA' = workerReducer(slotA, [stage |-> Head(feedA), dest |-> "", forHash |-> 1])
    /\ feedA' = Tail(feedA)
    /\ UNCHANGED <<feedB, slotB>>
    /\ UNCHANGED <<clientVars, onchainVars, sendVars, routeVars>>

\* one 2xx worker response published to slotB
feedSlotB ==
    /\ feedB # <<>>
    /\ slotB' = workerReducer(slotB, [stage |-> Head(feedB), dest |-> "", forHash |-> 1])
    /\ feedB' = Tail(feedB)
    /\ UNCHANGED <<feedA, slotA>>
    /\ UNCHANGED <<clientVars, onchainVars, sendVars, routeVars>>


(* ------------------ POST /api/lz-status-onchain ----------------------- *)
queried == 1
\* origin.nonce of the packet the source transaction sent (its PacketSent
\* event): the two transfers are consecutive packets of one channel

NullStatus == -1
NoResponse == [code |-> 0]

hexRepeat(c, n) == [i \in 1..n |-> c]
Prefix0x == <<"0", "x">>
\* token.addresses.hii of token 'default': a checksummed (mixed-case) address
OftSrc == Prefix0x \o hexRepeat("A", 2) \o hexRepeat("b", 38)
\* dstConfig.endpointV2 and another contract of the destination chain
EndpointV2Dst == Prefix0x \o hexRepeat("e", 40)
\* dstConfig.dvn
DvnDst == Prefix0x \o hexRepeat("5", 40)
\* srcConfig.eid of 'hii', and the eid of another source chain
SrcEid == 40001
OtherEid == 40002

\* bytes32 values of origin.sender carried by logs
SenderOft == Prefix0x \o hexRepeat("0", 24) \o hexRepeat("a", 2) \o hexRepeat("b", 38)
SenderOftUpper == Prefix0x \o hexRepeat("0", 24) \o hexRepeat("A", 2) \o hexRepeat("B", 38)
SenderOther == Prefix0x \o hexRepeat("0", 24) \o hexRepeat("c", 40)

\* strings that are searched or padded are sequences of one-character strings
\* the lower-case letter of each upper-case letter
lowerCaseLetter ==
    LET upper == <<"A", "B", "C", "D", "E", "F", "G", "H", "I", "J", "K", "L", "M", "N", "O", "P", "Q", "R", "S", "T", "U", "V", "W", "X", "Y", "Z">>
        lower == <<"a", "b", "c", "d", "e", "f", "g", "h", "i", "j", "k", "l", "m", "n", "o", "p", "q", "r", "s", "t", "u", "v", "w", "x", "y", "z">>
    IN  [c \in {upper[k] : k \in 1..26} |-> lower[CHOOSE k \in 1..26 : upper[k] = c]]
\* String.prototype.toLowerCase
toLowerCaseOf(str) ==
    [i \in 1..Len(str) |->
        IF str[i] \in DOMAIN lowerCaseLetter THEN lowerCaseLetter[str[i]] ELSE str[i]]
\* String.prototype.includes
includes(str, part) ==
    \E i \in 0..(Len(str) - Len(part)) : SubSeq(str, i + 1, i + Len(part)) = part

\* String.prototype.padStart(n, c)
padStart(str, n, c) ==
    IF Len(str) >= n THEN str ELSE hexRepeat(c, n - Len(str)) \o str

\* String.prototype.slice(k)
sliceFrom(str, k) == SubSeq(str, k + 1, Len(str))

\* pad32: left-pad an address to bytes32
pad32(addr) == Prefix0x \o padStart(sliceFrom(toLowerCaseOf(addr), 2), 64, "0")

\* the destination chain emits these logs: deliveries and verifications of
\* both packets, and delivered events of another source chain, another
\* sender and another emitting contract
mkLog(name, address, srcEid, sender, nonce) ==
    [name |-> name, address |-> address, srcEid |-> srcEid, sender |-> sender, nonce |-> nonce]
LogTemplates ==
    <<mkLog("PacketDelivered", EndpointV2Dst, SrcEid, SenderOft, 1),
      mkLog("PacketDelivered", EndpointV2Dst, SrcEid, SenderOftUpper, 2),
      mkLog("PacketVerified", EndpointV2Dst, SrcEid, SenderOft, 1),
      mkLog("PacketVerified", EndpointV2Dst, SrcEid, SenderOftUpper, 2),
      mkLog("PacketDelivered", EndpointV2Dst, OtherEid, SenderOft, 1),
      mkLog("PacketDelivered", EndpointV2Dst, SrcEid, SenderOther, 1),
      mkLog("PacketDelivered", (Prefix0x \o hexRepeat("f", 40)), SrcEid, SenderOft, 1),
      mkLog("VerifierFeePaid", DvnDst, 0, SenderOther, 0),
      mkLog("ExecuteFailed", DvnDst, 0, SenderOther, 0),
      mkLog("SetDstConfig", DvnDst, 0, SenderOther, 0)>>

\* the log an entry of dstLogs stands for
logOf(e) ==
    LET t == LogTemplates[e.template]
    IN  [name |-> t.name, address |-> t.address, srcEid |-> t.srcEid, sender |-> t.sender,
         nonce |-> t.nonce, blockNumber |-> e.blockNumber]

\* getTokensConfig(): token 'default' has an address on the source network,
\* any other token has none
NoAddress == <<>>
\* NEXT_PUBLIC_HII_NATIVE_ADAPTER
NativeAdapterSrc == Prefix0x \o hexRepeat("9", 40)
tokenAddress(id, networkKey) ==
    IF id = "default" /\ networkKey = "hii" THEN OftSrc
    ELSE IF id = "hnc_native" /\ networkKey = "hii" THEN NativeAdapterSrc
    ELSE NoAddress

DefaultScanWindow == 20000
NoWindow == -1

\* request bodies of the client polling transaction tx ("" is a missing field)

\* dstProvider.getLogs({address, fromBlock, toBlock, topics}).catch(() => [])
getLogs(address, fromBlock, toBlock, name, fails) ==
    IF fails THEN <<>>
    ELSE SelectSeq([i \in 1..Len(dstLogs) |-> logOf(dstLogs[i])],
                   LAMBDA l : /\ l.address = address
                              /\ l.name = name
                              /\ fromBlock <= l.blockNumber /\ l.blockNumber <= toBlock)

\* the match test without the sender comparison
originMatchesEidOnly(log, name, expectedSrcEid, expectedSender) ==
    /\ log.name = name
    /\ log.srcEid = expectedSrcEid

\* the test of one log in the matching loops
originMatches(log, name, expectedSrcEid, expectedSender) ==
    /\ log.name = name
    /\ log.srcEid = expectedSrcEid
    /\ toLowerCaseOf(log.sender) = toLowerCaseOf(expectedSender)

\* the matching loop: the first log that matches, Null when none does
RECURSIVE firstMatch(_, _, _, _)
firstMatch(logs, name, expectedSrcEid, expectedSender) ==
    IF logs = <<>> THEN Null
    ELSE IF originMatches(Head(logs), name, expectedSrcEid, expectedSender)
         THEN Head(logs)
         ELSE firstMatch(Tail(logs), name, expectedSrcEid, expectedSender)

\* the names of the DVN events the summary keeps
DvnEventNames == {"VerifierFeePaid", "VerifySignaturesFailed", "ExecuteFailed", "HashAlreadyUsed"}
\* the optional DVN scan: all logs of the DVN contract in the window, of
\* which the events of the four names are listed
dvnSummaryOf(includeDvn, fromBlock, toBlock, fails) ==
    IF ~includeDvn THEN Null
    ELSE LET dvnLogs == IF fails THEN <<>>
                        ELSE SelectSeq([i \in 1..Len(dstLogs) |-> logOf(dstLogs[i])],
                                       LAMBDA l : /\ l.address = DvnDst
                                                  /\ fromBlock <= l.blockNumber /\ l.blockNumber <= toBlock)
             kept == SelectSeq(dvnLogs, LAMBDA l : l.name \in DvnEventNames)
         IN  [events |-> [i \in 1..Len(kept) |-> kept[i].name], address |-> DvnDst]

\* the stage derivation taking a fee-paid event of the DVN for a verification
deriveStageDvnVerifies(matched, verified, receipt, sentOk) ==
    IF matched # Null THEN "executed"
    ELSE IF verified # Null THEN "verified"
    ELSE IF \E i \in 1..Len(dstLogs) : logOf(dstLogs[i]).name = "VerifierFeePaid" THEN "verified"
    ELSE IF receipt # Null THEN (IF sentOk THEN "inflight" ELSE "unknown")
    ELSE "inflight"

\* the stage derivation with a missing receipt reported as 'unknown'
deriveStageMissingUnknown(matched, verified, receipt, sentOk) ==
    IF matched # Null THEN "executed"
    ELSE IF verified # Null THEN "verified"
    ELSE IF sentOk THEN "inflight" ELSE "unknown"

\* the stage derived from the observed data
deriveStage(matched, verified, receipt, sentOk) ==
    IF matched # Null THEN "executed"
    ELSE IF verified # Null THEN "verified"
    ELSE IF receipt # Null THEN (IF sentOk THEN "inflight" ELSE "unknown")
    ELSE "inflight"


max(a, b) == IF a >= b THEN a ELSE b

\* the POST handler
POST(body, rpc) ==
    IF body.txHash = "" \/ body.sourceNetwork = "" \/ body.destNetwork = "" \/ body.tokenId = ""
    THEN [code |-> 400]
    ELSE
    LET oftSrc == tokenAddress(body.tokenId, body.sourceNetwork) IN
    IF oftSrc = NoAddress THEN [code |-> 400]
    ELSE IF rpc.blockNumberFails THEN [code |-> 500]
    ELSE
    LET receipt == IF rpc.receiptFails THEN Null ELSE srcReceipt
        sentOk == IF receipt # Null
                  THEN (IF receipt.status = NullStatus THEN 0 ELSE receipt.status) = 1
                  ELSE FALSE
        toBlock == dstHeight
        recentWindow == IF body.scanWindow = NoWindow THEN DefaultScanWindow ELSE body.scanWindow
        fromBlock == IF receipt # Null THEN receipt.blockNumber
                     ELSE max(0, toBlock - recentWindow)
        deliveredLogs == getLogs(EndpointV2Dst, fromBlock, toBlock, "PacketDelivered", rpc.deliveredFails)
        verifiedLogs == getLogs(EndpointV2Dst, fromBlock, toBlock, "PacketVerified", rpc.verifiedFails)
        expectedSender == pad32(oftSrc)
        expectedSrcEid == SrcEid
        matched == firstMatch(deliveredLogs, "PacketDelivered", expectedSrcEid, expectedSender)
        verified == IF matched = Null
                    THEN firstMatch(verifiedLogs, "PacketVerified", expectedSrcEid, expectedSender)
                    ELSE Null
        dvnSummary == dvnSummaryOf(body.includeDvn, fromBlock, toBlock, rpc.dvnFails)
        stage == deriveStage(matched, verified, receipt, sentOk)
    IN  [code |-> 200,
         stage |-> stage,
         source |-> IF receipt # Null THEN (IF sentOk THEN "Sent" ELSE "Failed")
                    ELSE "PendingOrUnknown",
         destination |-> IF matched # Null THEN "Delivered"
                         ELSE IF verified # Null THEN "Verified" ELSE "NotFound",
         origin |-> LET o == IF matched # Null THEN matched ELSE verified
                    IN  IF o = Null THEN Null
                        ELSE [srcEid |-> o.srcEid, sender |-> o.sender, nonce |-> o.nonce],
         verification |-> dvnSummary,
         window |-> [fromBlock |-> fromBlock, toBlock |-> toBlock],
         fetched |-> [receipt |-> receipt # Null,
                      delivered |-> ~rpc.deliveredFails,
                      verified |-> ~rpc.verifiedFails]]

OnchainInit ==
    /\ srcReceipt = Null
    /\ dstHeight = 0
    /\ dstLogs = <<>>
    /\ response = NoResponse

\* the source chain mines the queried transaction
mineSourceTx(status, blockNumber) ==
    /\ srcReceipt = Null
    /\ srcReceipt' = [status |-> status, blockNumber |-> blockNumber]
    /\ response' = NoResponse
    /\ UNCHANGED <<dstHeight, dstLogs>>
    /\ UNCHANGED <<clientVars, mergeVars, sendVars, routeVars>>

\* the destination chain mines a block in which a contract emits a log
emitDestLog(t) ==
    /\ Len(dstLogs) < MaxLogs
    /\ dstHeight' = dstHeight + 1
    /\ dstLogs' = Append(dstLogs, [template |-> t, blockNumber |-> dstHeight + 1])
    /\ response' = NoResponse
    /\ UNCHANGED srcReceipt
    /\ UNCHANGED <<clientVars, mergeVars, sendVars, routeVars>>

\* one request of the polling client for the queried transaction
postOnchain(body, rpc) ==
    /\ response = NoResponse
    /\ response' = POST(body, rpc)
    /\ UNCHANGED <<srcReceipt, dstHeight, dstLogs>>
    /\ UNCHANGED <<clientVars, mergeVars, sendVars, routeVars>>

\* the client has read the response
readResponse ==
    /\ response # NoResponse
    /\ response' = NoResponse
    /\ UNCHANGED <<srcReceipt, dstHeight, dstLogs>>
    /\ UNCHANGED <<clientVars, mergeVars, sendVars, routeVars>>

OnchainNext ==
    \/ \E st \in {1, 0, NullStatus}, b \in (0..MaxSrcBlock) : mineSourceTx(st, b)
    \/ \E t \in 1..Len(LogTemplates) : emitDestLog(t)
    \/ \E body \in [txHash : {"", "0xtx1"}, sourceNetwork : {"hii"}, destNetwork : {"sepolia"},
                     tokenId : {"default", "other"}, scanWindow : {NoWindow, 1}, includeDvn : BOOLEAN],
          rpc \in [receiptFails : BOOLEAN, blockNumberFails : BOOLEAN, deliveredFails : BOOLEAN,
                    verifiedFails : BOOLEAN, dvnFails : BOOLEAN] :
            \* the DVN logs are fetched, and can fail, only with includeDvn
            (rpc.dvnFails => body.includeDvn) /\ postOnchain(body, rpc)
    \/ readResponse

(* ------------------------- amounts and units -------------------------- *)
\* the literal 18 of `let decimals = 18`, `decimals ?? 18` and `d || 18`,
\* scaled down to 3 so that 10^decimals stays inside TLC's integers; the
\* decimals of the modelled tokens are scaled with it (they never exceed it)
DefaultDecimals == 3
\* an undefined `decimals` argument
NoDecimals == -1

Digits == <<"0", "1", "2", "3", "4", "5", "6", "7", "8", "9">>
allDigits(str) == \A i \in 1..Len(str) : \E d \in 1..10 : Digits[d] = str[i]


\* BigInt(str) of a string of digits
RECURSIVE BigInt(_)
BigInt(str) ==
    IF str = <<>> THEN 0
    ELSE 10 * BigInt(SubSeq(str, 1, Len(str) - 1)) + (CHOOSE d \in 1..10 : Digits[d] = str[Len(str)]) - 1

\* bigint.toString()
RECURSIVE toString(_)
toString(n) ==
    IF n < 10 THEN <<Digits[n + 1]>>
    ELSE toString(n \div 10) \o <<Digits[(n % 10) + 1]>>

\* bigint division: the quotient is truncated toward zero
bigintDiv(a, b) == IF a >= 0 THEN a \div b ELSE -((-a) \div b)

\* String.prototype.indexOf(c), 1-based, 0 when absent
indexOfChar(str, c) ==
    IF \E i \in 1..Len(str) : str[i] = c
    THEN CHOOSE i \in 1..Len(str) : str[i] = c /\ \A j \in 1..(i - 1) : str[j] # c
    ELSE 0


\* ethers.parseUnits(value, decimals): value must match
\* /^(-?)([0-9]*)\.?([0-9]*)$/ with at least one digit, and may not carry
\* non-zero digits beyond `decimals` fractional places
parseUnits(value, decimals) ==
    LET neg == Len(value) > 0 /\ value[1] = "-"
        body == IF neg THEN Tail(value) ELSE value
        dot == indexOfChar(body, ".")
        whole == IF dot = 0 THEN body ELSE SubSeq(body, 1, dot - 1)
        frac == IF dot = 0 THEN <<>> ELSE SubSeq(body, dot + 1, Len(body))
        matches == allDigits(whole) /\ allDigits(frac) /\ Len(whole) + Len(frac) > 0
        padded == IF Len(frac) < decimals THEN frac \o hexRepeat("0", decimals - Len(frac)) ELSE frac
        tooMany == \E i \in (decimals + 1)..Len(padded) : padded[i] # "0"
        magnitude == BigInt((IF whole = <<>> THEN <<"0">> ELSE whole) \o SubSeq(padded, 1, decimals))
    IN  IF ~matches \/ tooMany THEN [ok |-> FALSE]
        ELSE [ok |-> TRUE, value |-> IF neg THEN -magnitude ELSE magnitude]

RECURSIVE trimLeadingZeros(_)
trimLeadingZeros(str) ==
    IF Len(str) >= 2 /\ str[1] = "0" /\ str[2] # "." THEN trimLeadingZeros(Tail(str)) ELSE str

RECURSIVE trimTrailingZeros(_)
trimTrailingZeros(str) ==
    IF Len(str) >= 2 /\ str[Len(str)] = "0" /\ str[Len(str) - 1] # "."
    THEN trimTrailingZeros(SubSeq(str, 1, Len(str) - 1))
    ELSE str

\* ethers.formatUnits(value, decimals) of a non-negative value
formatUnits(value, decimals) ==
    IF decimals = 0 THEN toString(value)
    ELSE LET str == padStart(toString(value), decimals + 1, "0")
             index == Len(str) - decimals
             dotted == SubSeq(str, 1, index) \o <<".">> \o SubSeq(str, index + 1, Len(str))
         IN  trimTrailingZeros(trimLeadingZeros(dotted))

\* String.prototype.trim
RECURSIVE trim(_)
trim(str) ==
    IF str # <<>> /\ str[1] = " " THEN trim(Tail(str))
    ELSE IF str # <<>> /\ str[Len(str)] = " " THEN trim(SubSeq(str, 1, Len(str) - 1))
    ELSE str


\* amount strings a user types ("" is the empty field)
Amounts ==
    { <<>>, <<"0">>, <<"1">>, <<"2">>, <<"1", "2">>, <<"-", "1">>, <<"1", ".">>, <<".", "5">>,
      <<"1", ".", "5">>, <<"1", ".", "5", "0">>, <<"0", ".", "0", "0", "1">>,
      <<"0", ".", "0", "0", "2">>, <<"0", ".", "0", "0", "3">>, <<"-", "0", ".", "5">>,
      <<"0", ".", "1">>, <<"1", ".", "2", ".", "3">>, <<"a", "b", "c">>,
      <<"m", "a", "x">>, <<" ", "M", "a", "x", " ">> }

(* --------------------------- buildSendParam --------------------------- *)
\* dstConfig.eid of 'sepolia'
DstEid == 40161
eidOf(networkKey) == IF networkKey = "hii" THEN SrcEid ELSE DstEid

\* addressToBytes32
addressToBytes32(address) == Prefix0x \o padStart(sliceFrom(address, 2), 64, "0")

\* options values: the hex string "0x", an undefined argument
EmptyOptions == [type |-> "0x"]
NoOptions == [type |-> "undefined"]

\* ---- the options encoder (Options of @layerzerolabs/lz-v2-utilities) ----
HexDigits == <<"0", "1", "2", "3", "4", "5", "6", "7", "8", "9", "a", "b", "c", "d", "e", "f">>
RECURSIVE hexOf(_)
hexOf(n) == IF n < 16 THEN <<HexDigits[n + 1]>> ELSE hexOf(n \div 16) \o <<HexDigits[(n % 16) + 1]>>
\* an unsigned integer as big-endian hex of the given number of bytes
uintHex(n, bytes) == padStart(hexOf(n), 2 * bytes, "0")
RECURSIVE hexValue(_)
hexValue(str) ==
    IF str = <<>> THEN 0
    ELSE 16 * hexValue(SubSeq(str, 1, Len(str) - 1)) + (CHOOSE d \in 1..16 : HexDigits[d] = str[Len(str)]) - 1

\* 3 is the format-version header, 1 the worker id of executor directives
\* and 1 the option-type code of lzReceive
\* Options.newOptions(): no directive yet
newOptions == <<>>
\* addExecutorLzReceiveOption: body = gas (16 bytes), then value (16 bytes)
\* only when value is not 0
addExecutorLzReceiveOption(opts, gasLimit, nativeDrop) ==
    Append(opts, [workerId |-> 1, type |-> 1,
                  params |-> IF nativeDrop > 0 THEN uintHex(gasLimit, 16) \o uintHex(nativeDrop, 16)
                             ELSE uintHex(gasLimit, 16)])
\* toHex: header, then per directive the worker id (1 byte), the length of
\* type code and body (2 bytes), the type code (1 byte) and the body
RECURSIVE encodeOptions(_)
encodeOptions(opts) ==
    IF opts = <<>> THEN <<>>
    ELSE uintHex(opts[1].workerId, 1) \o uintHex((Len(opts[1].params) \div 2) + 1, 2)
         \o uintHex(opts[1].type, 1) \o opts[1].params \o encodeOptions(Tail(opts))
toHex(opts) == Prefix0x \o uintHex(3, 2) \o encodeOptions(opts)

\* Options.fromOptions: the directives of a hex string, read back
RECURSIVE decodeOptions(_)
decodeOptions(hex) ==
    IF Len(hex) < 8 THEN <<>>
    ELSE LET size == hexValue(SubSeq(hex, 3, 6))
             end == 6 + 2 * size
         IN  <<[workerId |-> hexValue(SubSeq(hex, 1, 2)),
                type |-> hexValue(SubSeq(hex, 7, 8)),
                params |-> SubSeq(hex, 9, end)]>>
             \o decodeOptions(SubSeq(hex, end + 1, Len(hex)))
fromOptions(hex) == decodeOptions(sliceFrom(hex, 6))
decodeExecutorLzReceiveOption(opts) ==
    LET found == {i \in 1..Len(opts) : opts[i].workerId = 1 /\ opts[i].type = 1}
    IN  IF found = {} THEN [gas |-> -1, value |-> -1]
        ELSE LET params == opts[CHOOSE i \in found : \A j \in found : i <= j].params
             IN  [gas |-> hexValue(SubSeq(params, 1, 32)),
                  value |-> IF Len(params) = 32 THEN 0 ELSE hexValue(SubSeq(params, 33, 64))]

\* buildLzReceiveOptions with its arguments in the wrong order
buildLzReceiveOptionsSwapped(gas, valueWei) ==
    [type |-> "lzReceive", hex |-> toHex(addExecutorLzReceiveOption(newOptions, valueWei, gas))]

\* Options.newOptions().addExecutorLzReceiveOption(gas, value).toHex()
buildLzReceiveOptions(gas, valueWei) ==
    [type |-> "lzReceive", hex |-> toHex(addExecutorLzReceiveOption(newOptions, gas, valueWei))]

Receiver == Prefix0x \o hexRepeat("d", 40)
Throws == [throws |-> TRUE]

\* buildSendParam with the slippage bound rounded up
buildSendParamCeil(srcNetworkKey, dstNetworkKey, amount, receiverAddress, decimals, extraOptionsOverride) ==
    LET parsedAmount == parseUnits(amount, IF decimals = NoDecimals THEN DefaultDecimals ELSE decimals)
    IN  IF ~parsedAmount.ok THEN Throws
        ELSE [dstEid |-> eidOf(dstNetworkKey),
              to |-> addressToBytes32(receiverAddress),
              amountLD |-> parsedAmount.value,
              minAmountLD |-> bigintDiv(parsedAmount.value * 9900 + 9999, 10000),
              extraOptions |-> IF extraOptionsOverride = NoOptions THEN EmptyOptions ELSE extraOptionsOverride,
              composeMsg |-> "0x",
              oftCmd |-> "0x"]

\* buildSendParam
buildSendParam(srcNetworkKey, dstNetworkKey, amount, receiverAddress, decimals, extraOptionsOverride) ==
    LET parsedAmount == parseUnits(amount, IF decimals = NoDecimals THEN DefaultDecimals ELSE decimals)
    IN  IF ~parsedAmount.ok THEN Throws
        ELSE [dstEid |-> eidOf(dstNetworkKey),
              to |-> addressToBytes32(receiverAddress),
              amountLD |-> parsedAmount.value,
              minAmountLD |-> bigintDiv(parsedAmount.value * 9900, 10000),
              extraOptions |-> IF extraOptionsOverride = NoOptions THEN EmptyOptions ELSE extraOptionsOverride,
              composeMsg |-> "0x",
              oftCmd |-> "0x"]



\* one call of buildSendParam
callBuildSendParam ==
    /\ paramOut = None
    /\ paramOut' = buildSendParam("hii", "sepolia", paramIn.amount, Receiver, paramIn.decimals, paramIn.options)
    /\ UNCHANGED paramIn
    /\ UNCHANGED <<clientVars, mergeVars, onchainVars, sessionVars, routeVars>>


(* ------------------- the send flow of the Home component -------------- *)
\* getTokensConfig() with the extra tokens enabled; the source network is 'hii'
Tokens == {"default", "hnc_native", "whnc_wrapped"}
nativeAdapter(id) == id = "hnc_native"
\* decimals() values of the underlying ERC-20 of token 'default'
TokenDecimals == {0, 1, DefaultDecimals}
\* balanceWei === null
NoBalance == -1
Signer == Prefix0x \o hexRepeat("5", 40)

\* MessagingFee values quoteSend returns
Fees == {[nativeFee |-> 7, lzTokenFee |-> 0], [nativeFee |-> 1, lzTokenFee |-> 5]}
\* messages an error thrown by oft.send may carry in info.error.data.message
\* and in message ("" is an absent message)
Messages == {"", "execution reverted", "missing trie node 1a2b"}
\* msg.includes("missing trie node")
includesMissingTrieNode(msg) == msg \in {"missing trie node 1a2b"}
\* a || b on message strings
orMessage(a, b) == IF a # "" THEN a ELSE b

\* isTrieMissing that takes every failure of oft.send for a missing trie node
isTrieMissingAlways(sendErr) == TRUE

\* isTrieMissing of the catch block around oft.send
isTrieMissing(sendErr) ==
    LET msg == orMessage(sendErr.infoMessage, orMessage(sendErr.message, ""))
    IN  includesMissingTrieNode(msg)

\* combinedOptions || localOptions: a hex string, "0x" included, is truthy

\* what the options block leaves in localOptions and combinedOptions
OptionsOutcomes == {"ok", "sendTypeFails", "enforcedOptionsFails", "combineOptionsFails"}
localOptionsAfter(outcome) ==
    IF outcome \in {"sendTypeFails", "enforcedOptionsFails"} THEN EmptyOptions
    ELSE buildLzReceiveOptions(200000, 0)
combinedOptionsAfter(outcome) ==
    IF outcome = "ok"
    THEN [type |-> "combined", enforced |-> "enforced", extra |-> buildLzReceiveOptions(200000, 0)]
    ELSE EmptyOptions

\* totalValue without the principal of a native adapter
totalValueFeeOnly(native, fee, amtLD) == fee.nativeFee

\* totalValue attached to the submission
totalValue(native, fee, amtLD) == IF native THEN fee.nativeFee + amtLD ELSE fee.nativeFee

\* the amount validation without the balance comparison
validateAmountNoBalance(resolvedAmount, decimals, balance) ==
    LET amtLD == parseUnits(resolvedAmount, decimals)
    IN  IF ~amtLD.ok THEN "Invalid amount format"
        ELSE IF amtLD.value <= 0 THEN "Amount must be greater than zero"
        ELSE ""

\* the amount validation: "" when the amount passes, else the error shown
validateAmount(resolvedAmount, decimals, balance) ==
    LET amtLD == parseUnits(resolvedAmount, decimals)
    IN  IF ~amtLD.ok THEN "Invalid amount format"
        ELSE IF balance # NoBalance /\ amtLD.value > balance THEN "Amount exceeds balance"
        ELSE IF amtLD.value <= 0 THEN "Amount must be greater than zero"
        ELSE ""

\* `d || 18` after erc20.decimals(), 18 for a native adapter or a failed read
DecimalsOutcomes == {"ok", "tokenFails", "decimalsFails"}
resolveDecimals(native, outcome, d) ==
    IF outcome # "ok" THEN DefaultDecimals
    ELSE IF native THEN DefaultDecimals
    ELSE IF d # 0 THEN d ELSE DefaultDecimals

checkFields(pre, amount, token) ==
    IF ~pre.filled \/ amount = <<>> THEN "Please fill all fields"
    ELSE IF ~pre.account THEN "Please connect your wallet"
    ELSE IF token = "" THEN "Please choose a token"
    ELSE IF ~pre.pair THEN "Unsupported source/destination pair"
    ELSE IF ~pre.ethereum THEN "MetaMask is not installed"
    ELSE ""

IdleRun ==
    [pc |-> "idle", amount |-> <<>>, resolvedAmount |-> <<>>, token |-> "",
     balanceWei |-> NoBalance, balanceFormatted |-> <<>>, balanceFor |-> "",
     decimals |-> DefaultDecimals, networkCalled |-> FALSE, optionsOutcome |-> "",
     sendParam |-> None, fee |-> None, quoted |-> <<>>, txs |-> <<>>,
     error |-> "", sendErr |-> None, thrown |-> None, outcome |-> "",
     calls |-> <<>>]



SessionInit ==
    /\ tokenId = ""
    /\ balanceWei = NoBalance /\ balanceFormatted = <<>> /\ balanceFor = ""
    /\ pendingBalance = [t \in Tokens |-> 0]
    /\ underlyingDecimals \in TokenDecimals
    /\ run = IdleRun
    /\ statusText = "" /\ waiting = {}

\* the user picks a token: the balance effect runs for it. A token without an
\* address on the source network clears the balance at once, otherwise the
\* reads are issued and the balance held stays until they resolve
selectToken(t) ==
    /\ run.pc = "idle"
    /\ t # tokenId
    /\ tokenId' = t
    /\ IF tokenAddress(t, "hii") = NoAddress
       THEN /\ balanceWei' = NoBalance /\ balanceFormatted' = <<>> /\ balanceFor' = ""
            /\ UNCHANGED pendingBalance
       ELSE /\ (pendingBalance["default"] + pendingBalance["hnc_native"] + pendingBalance["whnc_wrapped"]) < MaxPending
            /\ pendingBalance' = [pendingBalance EXCEPT ![t] = @ + 1]
            /\ UNCHANGED <<balanceWei, balanceFormatted, balanceFor>>
    /\ UNCHANGED <<underlyingDecimals, run, statusText, waiting>>
    /\ UNCHANGED <<clientVars, mergeVars, onchainVars, paramVars, routeVars>>

\* the reads of the balance effect started for token t resolve with balance bal
balanceFetched(t, bal) ==
    /\ run.pc = "idle"
    /\ pendingBalance[t] > 0
    /\ pendingBalance' = [pendingBalance EXCEPT ![t] = @ - 1]
    /\ balanceWei' = bal
    /\ balanceFormatted' = formatUnits(bal, IF nativeAdapter(t) THEN DefaultDecimals ELSE underlyingDecimals)
    /\ balanceFor' = t
    /\ UNCHANGED <<tokenId, underlyingDecimals, run, statusText, waiting>>
    /\ UNCHANGED <<clientVars, mergeVars, onchainVars, paramVars, routeVars>>

\* a read of the balance effect started for token t throws
balanceFetchFailed(t) ==
    /\ run.pc = "idle"
    /\ pendingBalance[t] > 0
    /\ pendingBalance' = [pendingBalance EXCEPT ![t] = @ - 1]
    /\ balanceWei' = NoBalance /\ balanceFormatted' = <<>> /\ balanceFor' = ""
    /\ UNCHANGED <<tokenId, underlyingDecimals, run, statusText, waiting>>
    /\ UNCHANGED <<clientVars, mergeVars, onchainVars, paramVars, routeVars>>

pollVars == <<aggStatus, lzWorkerStatus, stopped, inflight, lastFetch>>

\* a return that leaves isSending as it is
returnRejected(r, message) ==
    /\ run' = [r EXCEPT !.pc = "done", !.outcome = "rejected", !.error = message]
    /\ statusText' = "Error"
    /\ UNCHANGED waiting
    /\ sendRunning' = FALSE
    /\ UNCHANGED <<isSending, txHash, nSent, pollVars>>

\* a return after setIsSending(false); the return for a token without an
\* address leaves the status text as it is
returnCleared(r, message) ==
    /\ run' = [r EXCEPT !.pc = "done", !.outcome = "rejected", !.error = message]
    /\ statusText' = IF message = "Selected token is not supported on source network" THEN statusText ELSE "Error"
    /\ UNCHANGED waiting
    /\ sendRunning' = FALSE
    /\ isSending' = FALSE
    /\ UNCHANGED <<txHash, nSent, pollVars>>

\* the catch block of sendCrossChain
catchError(r, error) ==
    /\ run' = [r EXCEPT !.pc = "done", !.outcome = "error", !.thrown = error]
    /\ statusText' = "Error"
    /\ UNCHANGED waiting
    /\ sendRunning' = FALSE
    /\ isSending' = FALSE
    /\ UNCHANGED <<txHash, nSent, pollVars>>

\* sendCrossChain from the click to its first await; the run works on the
\* values of the render it was started in
sendCrossChain(amount, pre, chainOk) ==
    /\ run.pc = "idle"
    /\ ~isSending
    /\ LET message == checkFields(pre, amount, tokenId)
           r == [IdleRun EXCEPT !.amount = amount, !.token = tokenId, !.balanceWei = balanceWei,
                                !.balanceFormatted = balanceFormatted, !.balanceFor = balanceFor]
       IN  IF message # ""
           THEN /\ run' = [IdleRun EXCEPT !.pc = "done", !.outcome = "rejected", !.error = message]
                /\ UNCHANGED <<isSending, sendRunning, statusText>>
           ELSE /\ run' = [r EXCEPT !.pc = IF chainOk THEN "signer" ELSE "switch"]
                /\ statusText' = "Sending..."
                /\ isSending' = TRUE
                /\ sendRunning' = TRUE
    /\ UNCHANGED <<txHash, nSent, pollVars, waiting>>
    /\ UNCHANGED <<tokenId, balanceWei, balanceFormatted, balanceFor, pendingBalance, underlyingDecimals>>
    /\ UNCHANGED <<mergeVars, onchainVars, paramVars, routeVars>>

\* await switchNetwork(): it catches its own errors
switchNetwork ==
    /\ run.pc = "switch"
    /\ run' = [run EXCEPT !.pc = "signer", !.networkCalled = TRUE]
    /\ UNCHANGED <<clientVars, statusText, waiting>>
    /\ UNCHANGED <<tokenId, balanceWei, balanceFormatted, balanceFor, pendingBalance, underlyingDecimals>>
    /\ UNCHANGED <<mergeVars, onchainVars, paramVars, routeVars>>

\* await provider.getSigner(), then 'max' and the token address are resolved
getSigner(ok) ==
    /\ run.pc = "signer"
    /\ LET r == [run EXCEPT !.networkCalled = TRUE]
           resolvedAmount == IF toLowerCaseOf(trim(run.amount)) = <<"m", "a", "x">>
                             THEN run.balanceFormatted ELSE run.amount
       IN  IF ~ok THEN catchError(r, [infoMessage |-> "", message |-> "user rejected"])
           ELSE IF resolvedAmount = <<>>
           THEN returnCleared(r, "Balance not loaded; connect wallet and choose token")
           ELSE IF tokenAddress(run.token, "hii") = NoAddress
           THEN returnCleared([r EXCEPT !.resolvedAmount = resolvedAmount],
                              "Selected token is not supported on source network")
           ELSE /\ run' = [r EXCEPT !.pc = "decimals", !.resolvedAmount = resolvedAmount]
                /\ UNCHANGED <<clientVars, statusText, waiting>>
    /\ UNCHANGED <<tokenId, balanceWei, balanceFormatted, balanceFor, pendingBalance, underlyingDecimals>>
    /\ UNCHANGED <<mergeVars, onchainVars, paramVars, routeVars>>

\* await oft.token() and erc20.decimals(), then the amount validation
fetchDecimals(outcome) ==
    /\ run.pc = "decimals"
    /\ LET native == nativeAdapter(run.token)
           decimals == resolveDecimals(native, outcome, underlyingDecimals)
           r == [run EXCEPT !.networkCalled = TRUE, !.decimals = decimals,
                            !.calls = Append(@, "decimals")]
           message == validateAmount(run.resolvedAmount, decimals, run.balanceWei)
       IN  IF message # "" THEN returnRejected(r, message)
           ELSE /\ run' = [r EXCEPT !.pc = "options"]
                /\ UNCHANGED <<clientVars, statusText, waiting>>
    /\ UNCHANGED <<tokenId, balanceWei, balanceFormatted, balanceFor, pendingBalance, underlyingDecimals>>
    /\ UNCHANGED <<mergeVars, onchainVars, paramVars, routeVars>>

\* await oft.SEND(), oft.enforcedOptions(), oft.combineOptions() inside their
\* try block, then buildSendParam
resolveOptions(outcome) ==
    /\ run.pc = "options"
    /\ LET localOptions == localOptionsAfter(outcome)
           combinedOptions == combinedOptionsAfter(outcome)
           sendParam == buildSendParam("hii", "sepolia", run.resolvedAmount, Receiver, run.decimals,
                                       (IF combinedOptions.type # "emptyString" THEN combinedOptions ELSE localOptions))
           r == [run EXCEPT !.networkCalled = TRUE, !.optionsOutcome = outcome,
                            !.calls = Append(@, "options")]
       IN  IF sendParam = Throws THEN catchError(r, [infoMessage |-> "", message |-> "invalid FixedNumber string value"])
           ELSE /\ run' = [r EXCEPT !.pc = "quote", !.sendParam = sendParam]
                /\ UNCHANGED <<clientVars, statusText, waiting>>
    /\ UNCHANGED <<tokenId, balanceWei, balanceFormatted, balanceFor, pendingBalance, underlyingDecimals>>
    /\ UNCHANGED <<mergeVars, onchainVars, paramVars, routeVars>>

\* await oft.quoteSend(sendParam, false) returns a fee
quoteSendOk(fee) ==
    /\ run.pc = "quote"
    /\ run' = [run EXCEPT !.pc = "send", !.networkCalled = TRUE, !.fee = fee,
                          !.quoted = Append(@, run.sendParam),
                          !.calls = Append(@, "quoteSend")]
    /\ UNCHANGED <<clientVars, statusText, waiting>>
    /\ UNCHANGED <<tokenId, balanceWei, balanceFormatted, balanceFor, pendingBalance, underlyingDecimals>>
    /\ UNCHANGED <<mergeVars, onchainVars, paramVars, routeVars>>

\* a throw of quoteSend that is swallowed: the run goes on with no fee
quoteSendFailsIgnored ==
    /\ run.pc = "quote"
    /\ run' = [run EXCEPT !.pc = "send", !.networkCalled = TRUE,
                          !.fee = [nativeFee |-> 0, lzTokenFee |-> 0],
                          !.calls = Append(@, "quoteSend")]
    /\ UNCHANGED <<clientVars, statusText, waiting>>
    /\ UNCHANGED <<tokenId, balanceWei, balanceFormatted, balanceFor, pendingBalance, underlyingDecimals>>
    /\ UNCHANGED <<mergeVars, onchainVars, paramVars, routeVars>>

\* await oft.quoteSend(sendParam, false) throws
quoteSendFails ==
    /\ run.pc = "quote"
    /\ catchError([run EXCEPT !.networkCalled = TRUE, !.quoted = Append(@, run.sendParam),
                              !.calls = Append(@, "quoteSend")],
                  [infoMessage |-> "", message |-> "execution reverted"])
    /\ UNCHANGED <<tokenId, balanceWei, balanceFormatted, balanceFor, pendingBalance, underlyingDecimals>>
    /\ UNCHANGED <<mergeVars, onchainVars, paramVars, routeVars>>

\* setTxHash(tx.hash), setLzWorkerStatus(null) and the effects of the render
\* that follows (see sendCrossChainSubmitted)
publishTxHash(r) ==
    LET h == nSent + 1 IN
    /\ run' = [r EXCEPT !.pc = "done", !.outcome = "submitted"]
    /\ statusText' = "Transaction sent"
    /\ waiting' = waiting \cup {h}
    /\ nSent' = h
    /\ txHash' = h
    /\ stopped' = FALSE
    /\ inflight' = addTick(inflight, h, "agg")
    /\ isSending' = stopLoading(h, aggStatus, Null, isSending)
    /\ aggStatus' = Null
    /\ lzWorkerStatus' = Null
    /\ sendRunning' = FALSE
    /\ lastFetch' = NoFetch

\* the transaction request of oft.send(sendParam, fee, refundAddress, { value })
primaryTx(r) ==
    [kind |-> "send", sendParam |-> r.sendParam,
     fee |-> [nativeFee |-> r.fee.nativeFee, lzTokenFee |-> r.fee.lzTokenFee],
     refundAddress |-> Signer,
     value |-> totalValue(nativeAdapter(r.token), r.fee, parseUnits(r.resolvedAmount, r.decimals).value),
     type |-> 2, gasLimit |-> 0]

\* the transaction request of the raw fallback signer.sendTransaction
fallbackTx(r) ==
    [kind |-> "raw", sendParam |-> r.sendParam,
     fee |-> [nativeFee |-> r.fee.nativeFee, lzTokenFee |-> r.fee.lzTokenFee],
     refundAddress |-> Signer,
     value |-> totalValue(nativeAdapter(r.token), r.fee, parseUnits(r.resolvedAmount, r.decimals).value),
     type |-> 0, gasLimit |-> 600000]

\* await oft.send(...) returns the transaction
oftSendOk ==
    /\ run.pc = "send"
    /\ nSent < MaxTransfers
    /\ publishTxHash([run EXCEPT !.networkCalled = TRUE, !.txs = Append(@, primaryTx(run)),
                                 !.calls = Append(@, "send")])
    /\ UNCHANGED <<tokenId, balanceWei, balanceFormatted, balanceFor, pendingBalance, underlyingDecimals>>
    /\ UNCHANGED <<mergeVars, onchainVars, paramVars, routeVars>>

\* await oft.send(...) throws sendErr
oftSendFails(sendErr) ==
    /\ run.pc = "send"
    /\ LET r == [run EXCEPT !.networkCalled = TRUE, !.txs = Append(@, primaryTx(run)), !.sendErr = sendErr,
                            !.calls = Append(@, "send")]
       IN  IF ~isTrieMissing(sendErr) THEN catchError(r, sendErr)
           ELSE /\ run' = [r EXCEPT !.pc = "fallback"]
                /\ UNCHANGED <<clientVars, statusText, waiting>>
    /\ UNCHANGED <<tokenId, balanceWei, balanceFormatted, balanceFor, pendingBalance, underlyingDecimals>>
    /\ UNCHANGED <<mergeVars, onchainVars, paramVars, routeVars>>

\* the fallback: provider.getFeeData() (its failure is caught), then
\* await signer.sendTransaction(...) returns the transaction or throws
rawSend(ok) ==
    /\ run.pc = "fallback"
    /\ LET r == [run EXCEPT !.networkCalled = TRUE, !.txs = Append(@, fallbackTx(run)),
                            !.calls = Append(@, "raw")]
       IN  IF ok THEN nSent < MaxTransfers /\ publishTxHash(r)
           ELSE catchError(r, [infoMessage |-> "", message |-> "insufficient funds"])
    /\ UNCHANGED <<tokenId, balanceWei, balanceFormatted, balanceFor, pendingBalance, underlyingDecimals>>
    /\ UNCHANGED <<mergeVars, onchainVars, paramVars, routeVars>>

\* tx.wait() of the transaction with hash h resolves: setStatus in .then
receiptConfirmed(h) ==
    /\ h \in waiting
    /\ waiting' = waiting \ {h}
    /\ statusText' = "Transaction confirmed"
    /\ UNCHANGED <<clientVars, run>>
    /\ UNCHANGED <<tokenId, balanceWei, balanceFormatted, balanceFor, pendingBalance, underlyingDecimals>>
    /\ UNCHANGED <<mergeVars, onchainVars, paramVars, routeVars>>

\* a rejected tx.wait() handled like a failed send
receiptFailedIsError(h) ==
    /\ h \in waiting
    /\ waiting' = waiting \ {h}
    /\ statusText' = "Error"
    /\ UNCHANGED <<clientVars, run>>
    /\ UNCHANGED <<tokenId, balanceWei, balanceFormatted, balanceFor, pendingBalance, underlyingDecimals>>
    /\ UNCHANGED <<mergeVars, onchainVars, paramVars, routeVars>>

\* tx.wait() of the transaction with hash h rejects: .catch only logs
receiptFailed(h) ==
    /\ h \in waiting
    /\ waiting' = waiting \ {h}
    /\ UNCHANGED <<clientVars, run, statusText>>
    /\ UNCHANGED <<tokenId, balanceWei, balanceFormatted, balanceFor, pendingBalance, underlyingDecimals>>
    /\ UNCHANGED <<mergeVars, onchainVars, paramVars, routeVars>>

\* the promise of the run has settled and the page is idle again
runSettled ==
    /\ run.pc = "done"
    /\ run' = IdleRun
    /\ UNCHANGED <<clientVars, statusText, waiting>>
    /\ UNCHANGED <<tokenId, balanceWei, balanceFormatted, balanceFor, pendingBalance, underlyingDecimals>>
    /\ UNCHANGED <<mergeVars, onchainVars, paramVars, routeVars>>

SessionNext ==
    \/ \E t \in Tokens : selectToken(t)
    \/ \E t \in Tokens, bal \in 0..MaxBalance : balanceFetched(t, bal)
    \/ \E t \in Tokens : balanceFetchFailed(t)
    \/ \E amount \in Amounts, pre \in [filled : BOOLEAN, account : BOOLEAN, pair : BOOLEAN, ethereum : BOOLEAN], chainOk \in BOOLEAN : sendCrossChain(amount, pre, chainOk)
    \/ switchNetwork
    \/ \E ok \in BOOLEAN : getSigner(ok)
    \/ \E outcome \in DecimalsOutcomes : fetchDecimals(outcome)
    \/ \E outcome \in OptionsOutcomes : resolveOptions(outcome)
    \/ \E fee \in Fees : quoteSendOk(fee)
    \/ quoteSendFails
    \/ oftSendOk
    \/ \E sendErr \in [infoMessage : Messages, message : Messages] : oftSendFails(sendErr)
    \/ \E ok \in BOOLEAN : rawSend(ok)
    \/ \E h \in Hashes : receiptConfirmed(h)
    \/ \E h \in Hashes : receiptFailed(h)
    \/ runSettled


(* ------------------- POST /api/agg-status (the proxy) ----------------- *)

\* Response.ok: the status is in the range 200-299
resOk(status) == status >= 200 /\ status <= 299

\* the JSON body of a request, by what body?.txHash is: absent (also for a
\* null body), a number, or a string (NoHash is the empty string); a body
\* that is not JSON makes req.json() throw
AggBodies ==
    { [type |-> "invalid", hash |-> NoHash],
      [type |-> "undefined", hash |-> NoHash],
      [type |-> "number", hash |-> 1] }
    \cup { [type |-> "string", hash |-> h] : h \in {NoHash} \cup Hashes }

Upstreams ==
    { [kind |-> "throw", status |-> 0, currentStatus |-> ""] }
    \cup { [kind |-> "response", status |-> 200, currentStatus |-> s] : s \in AggNames }
    \cup { [kind |-> "response", status |-> c, currentStatus |-> ""] : c \in {200, 401, 403, 404, 500} \ {200} }

\* process.env.STATUS_API_BASE || process.env.NEXT_PUBLIC_STATUS_API_BASE,
\* as configured (TRUE) or not
resolveBase(configured) == configured

aggAnswer(code, error, hint, upstreamStatus, currentStatus) ==
    [code |-> code, error |-> error, hint |-> hint,
     upstreamStatus |-> upstreamStatus, currentStatus |-> currentStatus]

\* the proxy answering every upstream failure with 502
aggPOSTAlways502(body, configured, upstream) ==
    IF body.type = "invalid" THEN aggAnswer(500, "Unexpected token", "", 0, "")
    ELSE IF body.type # "string" \/ body.hash = NoHash
    THEN aggAnswer(400, "txHash is required", "", 0, "")
    ELSE IF ~resolveBase(configured)
    THEN aggAnswer(500, "STATUS_API_BASE not configured", "Set STATUS_API_BASE in env", 0, "")
    ELSE IF upstream.kind = "throw" THEN aggAnswer(500, "fetch failed", "", 0, "")
    ELSE IF ~resOk(upstream.status)
    THEN aggAnswer(502, "Upstream error", "", upstream.status, "")
    ELSE aggAnswer(200, "", "", 0, upstream.currentStatus)

\* POST of /api/agg-status
aggPOST(body, configured, upstream) ==
    IF body.type = "invalid" THEN aggAnswer(500, "Unexpected token", "", 0, "")
    ELSE IF body.type # "string" \/ body.hash = NoHash
    THEN aggAnswer(400, "txHash is required", "", 0, "")
    ELSE IF ~resolveBase(configured)
    THEN aggAnswer(500, "STATUS_API_BASE not configured", "Set STATUS_API_BASE in env", 0, "")
    ELSE IF upstream.kind = "throw" THEN aggAnswer(500, "fetch failed", "", 0, "")
    ELSE IF ~resOk(upstream.status)
    THEN IF upstream.status = 404
         THEN aggAnswer(404, "Not found", "", 404, "")
         ELSE IF upstream.status = 401 \/ upstream.status = 403
         THEN aggAnswer(upstream.status, "Unauthorized", "Check STATUS_API_USERNAME/PASSWORD",
                        upstream.status, "")
         ELSE aggAnswer(upstream.status, "Upstream error", "", upstream.status, "")
    ELSE aggAnswer(200, "", "", 0, upstream.currentStatus)

aggRequestOf(body, configured, upstream) ==
    LET usable == body.type = "string" /\ body.hash # NoHash
    IN  [body |-> body,
         base |-> IF ~usable THEN "unread" ELSE IF configured THEN "set" ELSE "unset",
         upstream |-> IF usable /\ configured THEN upstream ELSE [kind |-> "none", status |-> 0, currentStatus |-> ""]]

\* a caller other than the page posts a body to the proxy, which keeps no
\* state: the page is left as it is (here: before its first transfer)
postAggStatus(body, configured, upstream) ==
    /\ txHash = NoHash /\ nSent = 0 /\ ~sendRunning
    /\ LET reply == aggPOST(body, configured, upstream)
       IN  lastFetch' = [src |-> "proxy", ok |-> resOk(reply.code), name |-> reply.currentStatus,
                         hash |-> body.hash,
                         request |-> aggRequestOf(body, configured, upstream), reply |-> reply]
    /\ UNCHANGED <<txHash, aggStatus, lzWorkerStatus, isSending, sendRunning, stopped, inflight, nSent>>
    /\ UNCHANGED <<mergeVars, onchainVars, sendVars, routeVars>>

\* tick of the page resumes after its fetch of /api/agg-status, answered by
\* the proxy: publishes the JSON of a 2xx answer, keeps aggStatus on any
\* other, and issues the worker fetch
aggStatusAnswered(h, configured, upstream) ==
    /\ inflight[h]["agg"] > 0
    /\ LET body == [type |-> "string", hash |-> h]
           reply == aggPOST(body, configured, upstream)
           json == [currentStatus |-> reply.currentStatus, forHash |-> h]
           na == IF resOk(reply.code) THEN aggReducer(aggStatus, json) ELSE aggStatus
       IN  /\ aggStatus' = na
           /\ isSending' = IF currentStatusOf(na) # currentStatusOf(aggStatus)
                          THEN stopLoading(txHash, na, lzWorkerStatus, isSending)
                          ELSE isSending
           /\ lastFetch' = [src |-> "agg", ok |-> resOk(reply.code), name |-> reply.currentStatus,
                            hash |-> h,
                            request |-> aggRequestOf(body, configured, upstream), reply |-> reply]
           /\ stopped' = IF resOk(reply.code) /\ reply.currentStatus = "executed" /\ h = txHash
                         THEN TRUE ELSE stopped
    /\ inflight' = addTick(dropTick(inflight, h, "agg"), h, "worker")
    /\ UNCHANGED <<txHash, lzWorkerStatus, sendRunning, nSent>>
    /\ UNCHANGED <<mergeVars, onchainVars, sendVars, routeVars>>

AggNext ==
    \/ sendCrossChainStart
    \/ sendCrossChainSubmitted
    \/ intervalTick
    \/ \E body \in AggBodies, configured \in BOOLEAN, upstream \in Upstreams :
          postAggStatus(body, configured, upstream)
    \/ \E h \in Hashes, configured \in BOOLEAN, upstream \in Upstreams :
          aggStatusAnswered(h, configured, upstream)
    \/ \E h \in Hashes : workerResponseFail(h)



(* ------------------------ lib/config (networks) ----------------------- *)
NetworkKeys == {"hii", "sepolia"}
\* the fields of NetworkConfig that are not optional
RequiredFields ==
    {"name", "chainId", "rpcHttp", "eid", "endpointV2", "dvn", "executor", "lzExecutor",
     "oft", "priceFeed", "receiveUln", "sendUln", "treasury"}
NumericFields == {"chainId", "eid"}

\* parseNum: undefined (NoNumber) for an unset variable or one that is not
\* a number; the variables are decimal strings here
NoNumber == -1
parseNum(v) ==
    IF v = <<>> THEN NoNumber
    ELSE IF allDigits(v) THEN BigInt(v) ELSE NoNumber

\* the value an environment gives to the variable of a field: a string
\* ("" when unset), a decimal string for the numeric fields
envValue(f, set) ==
    IF f = "chainId" THEN (IF set THEN <<"7">> ELSE <<>>)
    ELSE IF f = "eid" THEN (IF set THEN <<"3">> ELSE <<>>)
    ELSE IF f = "oft" THEN (IF set THEN OftSrc ELSE NoAddress)
    ELSE IF set THEN "set" ELSE ""

\* the NEXT_PUBLIC_<NET>_* variables of one network: all set, all unset,
\* one required variable unset, or a numeric one set to "0" or to "abc"
fullEnv == [f \in RequiredFields |-> envValue(f, TRUE)]
emptyEnv == [f \in RequiredFields |-> envValue(f, FALSE)]
NetworkEnvs ==
    {fullEnv, emptyEnv}
    \cup { [fullEnv EXCEPT ![f] = envValue(f, FALSE)] : f \in RequiredFields }
    \cup { [fullEnv EXCEPT ![f] = <<"0">>] : f \in NumericFields }
    \cup { [fullEnv EXCEPT ![f] = <<"a", "b", "c">>] : f \in NumericFields }

\* !x for a field of the configuration being built
falsy(f, x) ==
    IF f \in NumericFields THEN x = NoNumber \/ x = 0
    ELSE IF f = "oft" THEN x = NoAddress
    ELSE x = ""

\* buildHii / buildSepolia on the variables of one network: null (Null)
\* when a required field is falsy
buildNetwork(ne) ==
    LET c == [f \in RequiredFields |-> IF f \in NumericFields THEN parseNum(ne[f]) ELSE ne[f]]
    IN  IF \E f \in RequiredFields : falsy(f, c[f]) THEN Null ELSE c

buildHii(e) == buildNetwork(e.hii)
buildSepolia(e) == buildNetwork(e.sepolia)

parsedNameOnly ==
    [f \in RequiredFields |->
        IF f = "name" THEN "set"
        ELSE IF f \in NumericFields THEN NoNumber ELSE envValue(f, FALSE)]
NetworksJson ==
    { [kind |-> "unset", value |-> <<>>],
      [kind |-> "invalid", value |-> <<>>],
      [kind |-> "object", value |-> [k \in NetworkKeys |-> ([f \in RequiredFields |-> IF f \in NumericFields THEN parseNum(fullEnv[f]) ELSE fullEnv[f]])]],
      [kind |-> "object", value |-> [k \in {"hii"} |-> parsedNameOnly]] }

getNetworksConfig(e) ==
    LET hii == buildHii(e)
        sepolia == buildSepolia(e)
        present == {k \in NetworkKeys : (IF k = "hii" THEN hii ELSE sepolia) # Null}
        networks == [k \in present |-> IF k = "hii" THEN hii ELSE sepolia]
    IN  IF present # {} THEN [throws |-> FALSE, networks |-> networks]
        ELSE IF e.networksJson.kind = "object"
        THEN [throws |-> FALSE, networks |-> e.networksJson.value]
        ELSE [throws |-> TRUE, networks |-> <<>>]

\* getNetworkConfig(networkKey): the configuration, or Null for a throw
getNetworkConfig(e, networkKey) ==
    LET networksConfig == getNetworksConfig(e)
    IN  IF networksConfig.throws THEN Null
        ELSE IF networkKey \notin DOMAIN networksConfig.networks THEN Null
        ELSE networksConfig.networks[networkKey]

\* getNetworkKeys
getNetworkKeys(e) ==
    IF getNetworksConfig(e).throws THEN {} ELSE DOMAIN getNetworksConfig(e).networks



\* the module is loaded in env: getNetworksConfig, then getNetworkConfig
\* for each key a caller may name
loadConfig ==
    /\ loadedConfig = None
    /\ loadedConfig' =
          [all |-> getNetworksConfig(env),
           one |-> [k \in NetworkKeys |-> getNetworkConfig(env, k)]]
    /\ UNCHANGED env
    /\ UNCHANGED <<clientVars, mergeVars, onchainVars, sendVars>>
    /\ UNCHANGED <<feeVars, optionsVars, scannerVars>>



(* ------------------------ lib/config (tokens) ------------------------- *)

\* getTokensConfig without NEXT_PUBLIC_TOKENS_JSON: token id -> addresses,
\* or the throw of getNetworksConfig
getTokensConfig(e) ==
    LET networks == getNetworksConfig(e)
        keys == IF networks.throws THEN {} ELSE DOMAIN networks.networks
        addresses == [k \in {x \in keys : networks.networks[x].oft # NoAddress} |-> networks.networks[k].oft]
        defaults == [id \in {"default"} |-> addresses]
        ids == {"default"}
               \cup (IF e.hiiNativeAdapter # NoAddress THEN {"hnc_native"} ELSE {})
               \cup (IF e.sepoliaWhnc # NoAddress THEN {"whnc_wrapped"} ELSE {})
    IN  IF networks.throws THEN [throws |-> TRUE, tokens |-> <<>>]
        ELSE IF ~e.enableExtras THEN [throws |-> FALSE, tokens |-> defaults]
        ELSE [throws |-> FALSE,
              tokens |-> [id \in ids |->
                            IF id = "default" THEN addresses
                            ELSE IF id = "hnc_native" THEN [k \in {"hii"} |-> e.hiiNativeAdapter]
                            ELSE [k \in {"sepolia"} |-> e.sepoliaWhnc]]]

\* tokens.find(t => t.id === tokenId)?.addresses?.[networkKey]
oftAddressOf(tokens, id, networkKey) ==
    IF id \notin DOMAIN tokens THEN NoAddress
    ELSE IF networkKey \notin DOMAIN tokens[id] THEN NoAddress
    ELSE tokens[id][networkKey]

(* ----------------------- POST /api/estimate-fee ----------------------- *)
\* bodies: "" (an empty amount: <<>>) is a missing or empty parameter

\* environments of the route: each network fully configured or not at all,
\* the token extras switched on with the Hii native adapter or off
FeeEnvs ==
    { [hii |-> h, sepolia |-> s, networksJson |-> [kind |-> "unset", value |-> <<>>],
       enableExtras |-> x,
       hiiNativeAdapter |-> IF x THEN NativeAdapterSrc ELSE NoAddress,
       sepoliaWhnc |-> NoAddress] :
      h \in {fullEnv, emptyEnv}, s \in {fullEnv, emptyEnv}, x \in BOOLEAN }

feeAnswer(code, fee, error, quoted) == [code |-> code, fee |-> fee, error |-> error, quoted |-> quoted]

\* POST of the estimate-fee route; decimalsOutcome, d, optionsOutcome and
\* quote (a fee, or Throws) are what the chain answers
feePOST(body, e, decimalsOutcome, d, optionsOutcome, quote) ==
    IF body.src = "" \/ body.dst = "" \/ body.amount = <<>> \/ body.tokenId = ""
    THEN feeAnswer(400, <<>>, "Missing required parameters", FALSE)
    ELSE
    LET tokens == getTokensConfig(e)
    IN  IF tokens.throws
        THEN feeAnswer(500, <<>>, "No network configuration found in environment variables", FALSE)
        ELSE
        LET oftAddress == oftAddressOf(tokens.tokens, body.tokenId, body.src)
        IN  IF oftAddress = NoAddress
            THEN feeAnswer(400, <<>>, "Selected token not supported on source network", FALSE)
            ELSE IF getNetworkConfig(e, body.src) = Null
            THEN feeAnswer(500, <<>>, "Network configuration for src not found", FALSE)
            ELSE
            LET decimals == resolveDecimals(FALSE, decimalsOutcome, d)
            IN  IF getNetworkConfig(e, body.dst) = Null
                THEN feeAnswer(500, <<>>, "Network configuration for dst not found", FALSE)
                ELSE
                LET combinedOptions == combinedOptionsAfter(optionsOutcome)
                    sendParam == buildSendParam(body.src, body.dst, body.amount,
                                                Prefix0x \o hexRepeat("0", 40), decimals, combinedOptions)
                IN  IF sendParam = Throws THEN feeAnswer(500, <<>>, "invalid FixedNumber string value", FALSE)
                    ELSE IF quote = Throws THEN feeAnswer(500, <<>>, "execution reverted", TRUE)
                    ELSE feeAnswer(200, formatUnits(quote.nativeFee, DefaultDecimals), "", TRUE)


\* the route handles one request
postEstimateFee(decimalsOutcome, d, optionsOutcome, quote) ==
    /\ feeReply = None
    /\ feeReply' = feePOST(feeRequest.body, feeRequest.env, decimalsOutcome, d, optionsOutcome, quote)
    /\ UNCHANGED feeRequest
    /\ UNCHANGED <<clientVars, mergeVars, onchainVars, sendVars>>
    /\ UNCHANGED <<optionsVars, scannerVars, configVars>>



(* ------------------- lib/options (buildLzReceiveOptions) -------------- *)

\* one call of buildLzReceiveOptions, and the executor decoding its result
callBuildLzReceiveOptions ==
    /\ optionsOut = None
    /\ LET hex == buildLzReceiveOptions(optionsIn.gas, optionsIn.value).hex
       IN  optionsOut' = [hex |-> hex, decoded |-> decodeExecutorLzReceiveOption(fromOptions(hex))]
    /\ UNCHANGED optionsIn
    /\ UNCHANGED <<clientVars, mergeVars, onchainVars, sendVars>>
    /\ UNCHANGED <<feeVars, scannerVars, configVars>>


(* ------------------- api/lz-status (scanner route) -------------------- *)
\* an absent (undefined) string field of a ScanMessage
Absent == <<>>

deriveWorkerStage(msg) ==
    LET dvn == toLowerCaseOf(msg.dvn)
        sealer == toLowerCaseOf(msg.sealer)
        dest == toLowerCaseOf(msg.dest)
        destTx == msg.destTx
        srcTx == msg.srcTx
    IN  IF srcTx # Absent /\ dvn = Absent /\ sealer = Absent /\ dest = Absent /\ destTx = Absent
        THEN "sent"
        ELSE IF dvn # Absent /\ sealer = Absent THEN "dvn_verifying"
        ELSE IF sealer # Absent /\ destTx = Absent THEN "committed"
        ELSE IF destTx # Absent /\ dest # Absent /\ ~includes(dest, <<"d", "e", "l", "i", "v", "e", "r", "e", "d">>) THEN "executing"
        ELSE IF destTx # Absent /\ (includes(dest, <<"d", "e", "l", "i", "v", "e", "r", "e", "d">>) \/ includes(dest, <<"s", "u", "c", "c", "e", "s", "s">>)) THEN "executed"
        ELSE IF msg.payloadStoredTx # Absent THEN "payload_stored"
        ELSE LET name == toLowerCase(msg.name)
             IN  IF name # "" THEN name ELSE "unknown"


\* one call of deriveWorkerStage on the primary message
callDeriveWorkerStage ==
    /\ workerStage = ""
    /\ workerStage' = deriveWorkerStage(scannerMessage)
    /\ UNCHANGED scannerMessage
    /\ UNCHANGED <<clientVars, mergeVars, onchainVars, sendVars>>
    /\ UNCHANGED <<feeVars, optionsVars, configVars>>


(* --------------------------- specifications --------------------------- *)
vars == <<clientVars, mergeVars, onchainVars, sendVars, routeVars>>

\* the page just mounted, the chains before the transfer, and every part
\* other than `part` with nothing fed, called or requested yet
Idle(part) ==
    /\ ClientInit
    /\ OnchainInit
    /\ IF part = "merge" THEN TRUE
       ELSE feedA = <<>> /\ feedB = <<>> /\ slotA = Null /\ slotB = Null
    /\ IF part = "send" THEN SessionInit
       ELSE SessionInit /\ underlyingDecimals = DefaultDecimals
    /\ IF part = "param" THEN TRUE
       ELSE /\ paramIn = [amount |-> <<>>, decimals |-> NoDecimals, options |-> NoOptions]
            /\ paramOut = None
    /\ IF part = "config" THEN TRUE ELSE env = None /\ loadedConfig = None
    /\ IF part = "fee" THEN TRUE ELSE feeRequest = None /\ feeReply = None
    /\ IF part = "options" THEN TRUE ELSE optionsIn = None /\ optionsOut = None
    /\ IF part = "scanner" THEN TRUE ELSE scannerMessage = None /\ workerStage = ""

\* the status polling of the page
Spec == Idle("") /\ [][ClientNext]_vars

\* the same worker responses fed to the reducer in two orders
SpecMerge ==
    /\ Idle("merge")
    /\ feedA \in Feeds
    /\ feedB \in {b \in Feeds :
                    /\ Len(feedA) = Len(b)
                    /\ \E f \in Permutations(1..Len(feedA)) :
                          \A i \in 1..Len(feedA) : b[i] = feedA[f[i]]}
    /\ slotA = Null /\ slotB = Null
    /\ [][feedSlotA \/ feedSlotB]_vars

\* POST /api/lz-status-onchain against the two chains
SpecOnchain == Idle("") /\ [][OnchainNext]_vars

\* sendCrossChain and the balance effect of the page
SpecSend == Idle("send") /\ [][SessionNext]_vars

\* buildSendParam on its own
SpecParam ==
    /\ Idle("param")
    /\ paramIn \in [amount : Amounts, decimals : (0..MaxDecimals) \cup {NoDecimals},
                    options : {NoOptions, EmptyOptions}]
    /\ paramOut = None
    /\ [][callBuildSendParam]_vars

\* the page polling through POST /api/agg-status
SpecAgg == Idle("") /\ [][AggNext]_vars

\* lib/config loaded in an environment
SpecConfig ==
    /\ Idle("config")
    /\ env \in [hii : NetworkEnvs, sepolia : NetworkEnvs, networksJson : NetworksJson]
    /\ loadedConfig = None
    /\ [][loadConfig]_vars

\* the estimate-fee handler on one request
SpecFee ==
    /\ Idle("fee")
    /\ feeRequest \in [body : [src : {"", "hii", "sepolia", "foo"},
                               dst : {"", "hii", "sepolia", "foo"},
                               amount : {<<>>, <<"1">>, <<"a", "b", "c">>},
                               tokenId : {"", "default", "hnc_native", "nope"}],
                       env : FeeEnvs]
    /\ feeReply = None
    /\ [][\E decimalsOutcome \in DecimalsOutcomes, d \in TokenDecimals,
             optionsOutcome \in OptionsOutcomes, quote \in Fees \cup {Throws} :
               postEstimateFee(decimalsOutcome, d, optionsOutcome, quote)]_vars

\* buildLzReceiveOptions on its own
SpecOptions ==
    /\ Idle("options")
    /\ optionsIn \in [gas : {0, 1, 15, 16, 255, 256, 65535, 200000},
                      value : {0, 1, 2, 15, 16, 255, 256, 200000}]
    /\ optionsOut = None
    /\ [][callBuildLzReceiveOptions]_vars

\* deriveWorkerStage on its own
SpecScanner ==
    /\ Idle("scanner")
    /\ scannerMessage \in
         [dvn : {Absent, <<"S", "U", "C", "C", "E", "E", "D", "E", "D">>, <<"W", "A", "I", "T", "I", "N", "G">>},
          sealer : {Absent, <<"S", "U", "C", "C", "E", "E", "D", "E", "D">>},
          dest : {Absent, <<"D", "E", "L", "I", "V", "E", "R", "E", "D">>,
                  <<"S", "U", "C", "C", "E", "E", "D", "E", "D">>,
                  <<"I", "N", "F", "L", "I", "G", "H", "T">>},
          destTx : {Absent, <<"0", "x", "d">>}, srcTx : {Absent, <<"0", "x", "s">>},
          payloadStoredTx : {Absent, <<"0", "x", "p">>}, name : {"", "DELIVERED", "failed"}]
    /\ workerStage = ""
    /\ [][callDeriveWorkerStage]_vars

(* ------------------- claims on the status polling --------------------- *)
\* every tick in flight and every published status belongs to txHash
onlyCurrentTransfer ==
    /\ \A h \in Hashes : h # txHash => inflight[h]["agg"] = 0 /\ inflight[h]["worker"] = 0
    /\ aggStatus # Null => aggStatus.forHash = txHash
    /\ lzWorkerStatus # Null => lzWorkerStatus.forHash = txHash

\* C1: while one transfer is polled (txHash fixed, no tick or status of another
\* transfer around), the rank of the status shown to the user never decreases.
C1_VisibleRankNeverDecreases ==
    [][(txHash # NoHash /\ txHash' = txHash /\ onlyCurrentTransfer)
          => getStatusRank(visibleStatus') >= getStatusRank(visibleStatus)]_vars

\* C2: in each slot a published status is replaced by a fetched one only if the
\* fetched rank is >= the published rank (a missing or unrecognized name ranks
\* 0), and a fetched status of strictly lower rank leaves the slot unchanged.
C2_ReplaceOnlyIfRankNotLower ==
    [][/\ (aggStatus' # aggStatus /\ aggStatus' # Null)
            => getStatusRank(currentStatusOf(aggStatus')) >= getStatusRank(currentStatusOf(aggStatus))
       /\ (lzWorkerStatus' # lzWorkerStatus /\ lzWorkerStatus' # Null)
            => getStatusRank(stageOf(lzWorkerStatus')) >= getStatusRank(stageOf(lzWorkerStatus))
       /\ (lastFetch'.src = "agg" /\ lastFetch'.ok
             /\ getStatusRank(lastFetch'.name) < getStatusRank(currentStatusOf(aggStatus)))
            => aggStatus' = aggStatus
       /\ (lastFetch'.src = "worker" /\ lastFetch'.ok
             /\ getStatusRank(lastFetch'.name) < getStatusRank(stageOf(lzWorkerStatus)))
            => lzWorkerStatus' = lzWorkerStatus]_vars

\* a lower-ranked aggregator status has just been fetched after a higher one
C2_Witness ==
    /\ lastFetch.src = "agg" /\ lastFetch.ok
    /\ lastFetch.name = "sent"
    /\ currentStatusOf(aggStatus) = "executed"
    /\ stageOf(lzWorkerStatus) = "executed"

\* C3: while a transfer is polled, every status written to aggStatus or
\* lzWorkerStatus was fetched for the active txHash.
C3_PublishedOnlyForActiveHash ==
    [][txHash' # NoHash =>
          /\ (aggStatus' # aggStatus /\ aggStatus' # Null) => aggStatus'.forHash = txHash'
          /\ (lzWorkerStatus' # lzWorkerStatus /\ lzWorkerStatus' # Null)
                => lzWorkerStatus'.forHash = txHash']_vars

\* C4: once a new txHash is set, no status of a previous transfer is held in
\* aggStatus or lzWorkerStatus.
C4_NoStatusOfPreviousTransfer ==
    txHash # NoHash =>
        /\ aggStatus # Null => aggStatus.forHash = txHash
        /\ lzWorkerStatus # Null => lzWorkerStatus.forHash = txHash

\* C5: a failed fetch leaves aggStatus unchanged, leaves a published
\* lzWorkerStatus unchanged, and changes neither `stopped` nor txHash, so the
\* interval goes on starting ticks.
C5_FailedFetchKeepsStatus ==
    [][/\ (lastFetch'.src = "agg" /\ ~lastFetch'.ok)
            => /\ aggStatus' = aggStatus
               /\ lzWorkerStatus' = lzWorkerStatus
               /\ stopped' = stopped /\ txHash' = txHash
       /\ (lastFetch'.src = "worker" /\ ~lastFetch'.ok)
            => /\ aggStatus' = aggStatus
               /\ lzWorkerStatus # Null => lzWorkerStatus' = lzWorkerStatus
               /\ stopped' = stopped /\ txHash' = txHash]_vars

\* the worker fetch of the polled transfer has just failed while both slots
\* hold a status, and the interval is still running
C5_Witness ==
    /\ lastFetch.src = "worker" /\ ~lastFetch.ok
    /\ lastFetch.hash = txHash
    /\ stageOf(lzWorkerStatus) = "verified"
    /\ currentStatusOf(aggStatus) = "sent"
    /\ ~stopped

\* C6: once lzWorkerStatus.stage is 'executed', no poll result changes the
\* stage while txHash stays the same.
C6_ExecutedNeverReverts ==
    [][(stageOf(lzWorkerStatus) = "executed" /\ txHash' = txHash)
          => stageOf(lzWorkerStatus') = "executed"]_vars

\* after 'executed' was published for the polled transfer, an 'inflight'
\* response for it has just been handled
C6_Witness ==
    /\ lastFetch.src = "worker" /\ lastFetch.ok
    /\ lastFetch.name = "inflight"
    /\ lastFetch.hash = txHash
    /\ lzWorkerStatus # Null
    /\ lzWorkerStatus.stage = "executed"
    /\ lzWorkerStatus.forHash = txHash

(* ------------------- claims on the status merge ----------------------- *)
\* C7: the merge is commutative: the same statuses fed to a cleared slot in
\* any two orders leave the same stage name published.
C7_MergeCommutative ==
    (feedA = <<>> /\ feedB = <<>>) => stageOf(slotA) = stageOf(slotB)

(* ------------------- claims on lz-status-onchain ---------------------- *)
\* the source token address as a bytes32: 12 zero bytes, then the address
leftPadded32(addr) == Prefix0x \o hexRepeat("0", 24) \o SubSeq(addr, 3, Len(addr))

\* a log of the destination chain named `name`, emitted by the destination
\* endpoint inside the scanned window, whose origin has the source eid and the
\* source token as sender
matchingLogOnChain(name, window) ==
    \E i \in 1..Len(dstLogs) :
        LET l == logOf(dstLogs[i]) IN
        /\ l.name = name
        /\ l.address = EndpointV2Dst
        /\ window.fromBlock <= l.blockNumber /\ l.blockNumber <= window.toBlock
        /\ l.srcEid = SrcEid
        /\ toLowerCaseOf(l.sender) = toLowerCaseOf(leftPadded32(OftSrc))

\* C8: stage 'executed' is returned only if the destination chain holds a
\* PacketDelivered log of the destination endpoint, inside [fromBlock, toBlock],
\* whose origin.srcEid is the source eid and whose origin.sender is the source
\* token address left-padded to 32 bytes, compared case-insensitively.
C8_ExecutedOnlyWithDeliveredLog ==
    (response.code = 200 /\ response.stage = "executed")
        => matchingLogOnChain("PacketDelivered", response.window)

\* 'executed' was returned although an earlier delivered log of another sender,
\* another source chain or another contract precedes the matching one
C8_Witness ==
    /\ response.code = 200 /\ response.stage = "executed"
    /\ Len(dstLogs) = 2
    /\ dstLogs[1].template \in {5, 6, 7}

\* the nonce of the packet transaction tx sent
PacketNonce(tx) == tx

\* C9: a delivered or verified event is reported for the queried transaction
\* only when its origin.nonce is the nonce of the packet that transaction sent.
C9_EventNonceIsPacketNonce ==
    (response.code = 200 /\ response.destination \in {"Delivered", "Verified"})
        => response.origin.nonce = PacketNonce(queried)

C11_StageIsOneOfThree ==
    response.code = 200 => response.stage \in {"inflight", "verified", "executed"}

\* C26: stage, destination status and origin of a 200 response are decided by
\* the destination endpoint's logs alone, with or without includeDvn and
\* whatever the DVN contract logged; the DVN events only fill verification.
C26_DvnOnlyFillsVerification ==
    response.code = 200 =>
        LET delivered == /\ response.fetched.delivered
                         /\ matchingLogOnChain("PacketDelivered", response.window)
            verified == /\ response.fetched.verified
                        /\ matchingLogOnChain("PacketVerified", response.window)
        IN  /\ (response.stage = "executed") <=> delivered
            /\ (response.stage = "verified") <=> (~delivered /\ verified)
            /\ response.destination = (IF delivered THEN "Delivered"
                                       ELSE IF verified THEN "Verified" ELSE "NotFound")
            /\ (response.origin = Null) <=> ~(delivered \/ verified)
            /\ response.origin # Null =>
                  /\ response.origin.srcEid = SrcEid
                  /\ toLowerCaseOf(response.origin.sender) = toLowerCaseOf(leftPadded32(OftSrc))
            /\ response.verification # Null =>
                  \A i \in 1..Len(response.verification.events) :
                      /\ response.verification.events[i] \in DvnEventNames
                      /\ \E j \in 1..Len(dstLogs) :
                            /\ logOf(dstLogs[j]).address = DvnDst
                            /\ logOf(dstLogs[j]).name = response.verification.events[i]

\* a DVN fee-paid event was listed for a transfer nothing was verified or
\* delivered for: the stage stayed 'inflight'
C26_Witness ==
    /\ response.code = 200
    /\ response.verification # Null
    /\ Len(response.verification.events) = 1
    /\ response.verification.events[1] = "VerifierFeePaid"
    /\ response.stage = "inflight"
    /\ response.destination = "NotFound"
    /\ response.origin = Null

\* C27: when the source receipt is known, the scanned range satisfies
\* fromBlock <= toBlock and holds every matching PacketDelivered log at or
\* below the destination height, so a delivered transfer is 'executed'.
C27_ScanRangeHoldsDelivered ==
    (response.code = 200 /\ response.fetched.receipt /\ response.fetched.delivered) =>
        /\ response.window.fromBlock <= response.window.toBlock
        /\ matchingLogOnChain("PacketDelivered", [fromBlock |-> 0, toBlock |-> dstHeight])
              => response.stage = "executed"

\* position of a stage of the on-chain route on inflight -> verified -> executed
onchainRank(s) ==
    CASE s = "inflight" -> 1
      [] s = "verified" -> 2
      [] s = "executed" -> 3
      [] OTHER -> 0

\* C28: within one transfer the published worker stage only advances along
\* inflight -> verified -> executed: a later on-chain answer of a lower stage
\* ('inflight' or 'unknown' after 'verified') does not replace it.
C28_OnchainStageOnlyAdvances ==
    [][(/\ lzWorkerStatus # Null
        /\ lastFetch'.src = "worker"
        /\ lastFetch'.ok
        /\ lastFetch'.hash = lzWorkerStatus.forHash
        /\ stageOf(lzWorkerStatus) \in {"unknown", "inflight", "verified", "executed"}
        /\ lastFetch'.name \in {"unknown", "inflight", "verified", "executed"})
            => onchainRank(stageOf(lzWorkerStatus')) >= onchainRank(stageOf(lzWorkerStatus))]_vars

\* C29: deriveWorkerStage returns 'executed' for every message that has a
\* destination transaction hash and a destination status containing
\* 'delivered' or 'success', whatever its DVN and sealer statuses are.
C29_DeliveredIsExecuted ==
    (/\ workerStage # ""
     /\ scannerMessage.destTx # Absent
     /\ \/ includes(toLowerCaseOf(scannerMessage.dest), <<"d", "e", "l", "i", "v", "e", "r", "e", "d">>)
        \/ includes(toLowerCaseOf(scannerMessage.dest), <<"s", "u", "c", "c", "e", "s", "s">>))
        => workerStage = "executed"

(* ------------------ claims on the send button's loading --------------- *)
\* an executed / delivered status fetched for transfer h is published
executedDetectedFor(h) ==
    \/ /\ aggStatus # Null /\ aggStatus.forHash = h
       /\ toLowerCase(aggStatus.currentStatus) = "executed"
    \/ /\ lzWorkerStatus # Null /\ lzWorkerStatus.forHash = h
       /\ \/ toLowerCase(lzWorkerStatus.stage) = "executed"
          \/ toLowerCase(lzWorkerStatus.dest) = "delivered"

\* C18: after a successful submission isSending stays true until an executed /
\* delivered status of that transfer is published (a later run of
\* sendCrossChain that ends without a submission is left aside), and it is
\* false in the step that first publishes such a status.
C18_LoadingUntilExecuted ==
    [][/\ (txHash' # NoHash /\ isSending /\ ~isSending' /\ ~(sendRunning /\ txHash' = txHash))
            => executedDetectedFor(txHash)' /\ txHash' = txHash
       /\ (txHash' = txHash /\ ~sendRunning /\ ~executedDetectedFor(txHash)
             /\ executedDetectedFor(txHash)')
            => ~isSending']_vars

(* ----------------------- claims on the send flow ---------------------- *)
\* the SendParams passed to quoteSend, oft.send and the raw fallback so far
issuedParams == {run.quoted[i] : i \in 1..Len(run.quoted)} \cup {run.txs[i].sendParam : i \in 1..Len(run.txs)}
amountIsMax == toLowerCaseOf(trim(run.amount)) = <<"m", "a", "x">>

\* C12: quoteSend, oft.send and the raw fallback are only ever issued after the
\* amount check has passed: the amount they carry is greater than zero and,
\* when the balance is known, not above it.
C12_NoQuoteOrSendOfBadAmount ==
    \A sp \in issuedParams :
        /\ run.pc \in {"send", "fallback", "done"}
        /\ sp.amountLD > 0
        /\ run.balanceWei # NoBalance => sp.amountLD <= run.balanceWei

\* a transaction was submitted for the whole known balance
C12_Witness ==
    /\ run.outcome = "submitted"
    /\ run.balanceWei # NoBalance
    /\ \E i \in 1..Len(run.txs) : run.txs[i].sendParam.amountLD = run.balanceWei

\* C13: a run rejected for a missing field, an unsupported pair, an
\* unparsable, zero, negative or over-balance amount has made no network call.
C13_RejectedBeforeAnyNetworkCall ==
    (/\ run.outcome = "rejected"
     /\ run.error \in {"Please fill all fields", "Unsupported source/destination pair",
                       "Invalid amount format", "Amount must be greater than zero",
                       "Amount exceeds balance"})
        => ~run.networkCalled

\* C14: when a call of the options block failed, the send goes on and the
\* SendParam quoted and sent carries the local lzReceive options (200000, 0).
C14_LocalOptionsOnCombineFailure ==
    (run.optionsOutcome \in OptionsOutcomes \ {"ok"})
        => /\ run.pc # "done" \/ run.quoted # <<>>
           /\ \A sp \in issuedParams : sp.extraOptions = buildLzReceiveOptions(200000, 0)

\* C15: every submission attaches nativeFee, plus the SendParam's amountLD for
\* a native adapter, names the signer as refund address and passes the quoted
\* MessagingFee.
C15_ValueIsFeePlusPrincipal ==
    \A i \in 1..Len(run.txs) :
        LET tx == run.txs[i] IN
        /\ tx.value = IF nativeAdapter(run.token) THEN run.fee.nativeFee + tx.sendParam.amountLD
                       ELSE run.fee.nativeFee
        /\ tx.refundAddress = Signer
        /\ tx.fee = run.fee
        /\ tx.sendParam = run.quoted[1]

\* a native-adapter transfer was submitted with a non-zero fee
C15_Witness ==
    /\ run.outcome = "submitted"
    /\ nativeAdapter(run.token)
    /\ run.fee.nativeFee > 0
    /\ run.txs[1].value > run.fee.nativeFee

\* the message the catch block around oft.send reads from the error:
\* info.error.data.message when present, else message
messageOf(err) == orMessage(err.infoMessage, err.message)
rawTxs == {i \in 1..Len(run.txs) : run.txs[i].kind = "raw"}

\* C16: the raw fallback is issued exactly when oft.send failed with a message
\* containing 'missing trie node', at most once, with type 0, gasLimit 600000
\* and the value of the primary call; after any other failure nothing more is
\* submitted and the catch block receives the error of oft.send itself.
C16_FallbackOnlyOnMissingTrieNode ==
    /\ Cardinality(rawTxs) <= 1
    /\ \A i \in rawTxs :
          /\ i = 2 /\ run.txs[1].kind = "send"
          /\ run.sendErr # None /\ includesMissingTrieNode(messageOf(run.sendErr))
          /\ run.txs[i].type = 0 /\ run.txs[i].gasLimit = 600000
          /\ run.txs[i].value = run.txs[1].value
    /\ (run.sendErr # None /\ includesMissingTrieNode(messageOf(run.sendErr)))
          => run.pc = "fallback" \/ rawTxs # {}
    /\ (run.sendErr # None /\ ~includesMissingTrieNode(messageOf(run.sendErr)))
          => /\ Len(run.txs) = 1
             /\ run.pc = "done" /\ run.outcome = "error" /\ run.thrown = run.sendErr

\* the fallback was submitted after a 'missing trie node' failure
C16_Witness ==
    /\ run.outcome = "submitted"
    /\ Len(run.txs) = 2
    /\ run.txs[2].kind = "raw"
    /\ run.sendErr.message = "missing trie node 1a2b"

\* C17: when a run of sendCrossChain has finished without a submitted
\* transaction, isSending is false.
C17_LoadingClearedWithoutSubmission ==
    (run.pc = "done" /\ run.outcome # "submitted") => ~isSending

\* C20: a run whose amount is 'max' sends the fetched balance of the selected
\* token, and without a loaded balance it is rejected and submits nothing.
C20_MaxSendsFetchedBalance ==
    amountIsMax =>
        /\ \A i \in 1..Len(run.txs) :
              /\ run.txs[i].sendParam.amountLD = run.balanceWei
              /\ run.balanceFor = run.token
        /\ (run.balanceFormatted = <<>> /\ run.pc = "done")
              => run.outcome \in {"rejected", "error"} /\ run.quoted = <<>> /\ run.txs = <<>>

(* ------------------------ claims on buildSendParam -------------------- *)
paramDecimals == IF paramIn.decimals = NoDecimals THEN DefaultDecimals ELSE paramIn.decimals
\* m = floor(x * 9900 / 10000)
isFloorOf99Percent(m, x) == m * 10000 <= x * 9900 /\ x * 9900 < (m + 1) * 10000

\* C19 as stated: for every amount string parseUnits accepts, buildSendParam
\* returns amountLD = parseUnits(a, d), minAmountLD = floor(amountLD * 9900 /
\* 10000) and minAmountLD <= amountLD.
C19_MinAmountForEveryAccepted ==
    (paramOut # None /\ parseUnits(paramIn.amount, paramDecimals).ok)
        => /\ paramOut # Throws
           /\ paramOut.amountLD = parseUnits(paramIn.amount, paramDecimals).value
           /\ isFloorOf99Percent(paramOut.minAmountLD, paramOut.amountLD)
           /\ paramOut.minAmountLD <= paramOut.amountLD

\* C19 amended: the same for every accepted amount string that is not negative.
C19_MinAmountForNonNegative ==
    (/\ paramOut # None
     /\ parseUnits(paramIn.amount, paramDecimals).ok
     /\ parseUnits(paramIn.amount, paramDecimals).value >= 0)
        => /\ paramOut # Throws
           /\ paramOut.amountLD = parseUnits(paramIn.amount, paramDecimals).value
           /\ isFloorOf99Percent(paramOut.minAmountLD, paramOut.amountLD)
           /\ paramOut.minAmountLD <= paramOut.amountLD

\* buildSendParam returned for "1.5" with one decimal: 15 and 14
C19_Witness ==
    /\ paramOut # None /\ paramOut # Throws
    /\ paramIn.amount = <<"1", ".", "5">> /\ paramIn.decimals = 1
    /\ paramOut.amountLD = 15 /\ paramOut.minAmountLD = 14

(* ------------------- claims on the order of a send -------------------- *)
\* the calls of a run in the order the claim gives them
callOrder == <<"decimals", "options", "quoteSend", "send", "raw">>
isPrefix(a, b) == Len(a) <= Len(b) /\ a = SubSeq(b, 1, Len(a))

\* C24: a run of sendCrossChain resolves the decimals, then the options,
\* then quotes, then sends; oft.send and the raw fallback are called only
\* after quoteSend returned a fee; when quoteSend throws the run ends with
\* status 'Error', no transaction request and txHash left as it was
C24_QuoteBeforeSend ==
    [][ /\ isPrefix(run'.calls, callOrder)
        /\ run'.txs # <<>> => (run'.fee \in Fees /\ Len(run'.quoted) = 1)
        /\ (run.pc = "quote" /\ run'.pc = "done")
              => /\ statusText' = "Error"
                 /\ run'.outcome = "error"
                 /\ run'.txs = <<>>
                 /\ txHash' = txHash /\ nSent' = nSent ]_vars

\* a run ended by a throw of quoteSend, after the decimals and the options
C24_Witness ==
    /\ run.pc = "done" /\ run.outcome = "error"
    /\ run.calls = <<"decimals", "options", "quoteSend">>
    /\ statusText = "Error" /\ run.txs = <<>>

\* C25: the step that submits a transaction publishes its hash and the
\* status 'Transaction sent' while its receipt is still awaited, and the
\* polling of that hash has started; a receipt wait that ends later leaves
\* txHash and the loading flag alone and never turns the status to 'Error'
C25_SubmittedBeforeReceipt ==
    [][ /\ (run.pc \in {"send", "fallback"} /\ run'.outcome = "submitted")
              => /\ txHash' # NoHash /\ txHash' # txHash
                 /\ statusText' = "Transaction sent"
                 /\ txHash' \in waiting'
                 /\ inflight'[txHash']["agg"] > 0
        /\ (waiting' # waiting /\ waiting' \subseteq waiting)
              => /\ txHash' = txHash
                 /\ isSending' = isSending
                 /\ statusText' \in {statusText, "Transaction confirmed"} ]_vars

\* the receipt wait of the published transaction has failed: nothing is
\* awaited any more and the status still reads 'Transaction sent'
C25_Witness ==
    /\ txHash # NoHash /\ txHash \notin waiting
    /\ statusText = "Transaction sent"
    /\ run.outcome = "submitted"

(* ------------------------ claims on the routes ------------------------ *)
\* the answer of the proxy fits the request it was computed from
aggAnswerFits(q, r) ==
    /\ (q.body.type \in {"undefined", "number"} \/ (q.body.type = "string" /\ q.body.hash = NoHash))
          => r.code = 400
    /\ (q.body.type = "string" /\ q.body.hash # NoHash /\ q.base = "unset") => r.code = 500
    /\ (q.body.type = "string" /\ q.body.hash # NoHash /\ q.base = "set"
          /\ q.upstream.kind = "response" /\ ~resOk(q.upstream.status))
          => /\ r.code = q.upstream.status
             /\ r.error # ""
             /\ r.upstreamStatus = q.upstream.status
             /\ (q.upstream.status \in {401, 403} => r.hint # "")

\* C21: POST agg-status answers a non-2xx upstream response with the same
\* status code and an error body (with a credential hint for 401 and 403),
\* a JSON body whose txHash is missing or not a string with 400, and a
\* request with a txHash but no configured base URL with 500; the page
\* leaves aggStatus as it was on every non-2xx answer
C21_ProxyErrorsKeepStatus ==
    [][ /\ lastFetch'.src \in {"agg", "proxy"} => aggAnswerFits(lastFetch'.request, lastFetch'.reply)
        /\ (lastFetch'.src = "agg" /\ ~resOk(lastFetch'.reply.code)) => aggStatus' = aggStatus ]_vars

\* the page got 403 with the hint while a status was published
C21_Witness ==
    /\ lastFetch.src = "agg"
    /\ lastFetch.reply.code = 403 /\ lastFetch.reply.hint # ""
    /\ currentStatusOf(aggStatus) = "sent"

\* a request that misses a parameter or names a token or a network that is
\* not configured or not supported
feeRequestIsBad(q) ==
    \/ q.body.src = "" \/ q.body.dst = "" \/ q.body.amount = <<>> \/ q.body.tokenId = ""
    \/ q.body.src \notin getNetworkKeys(q.env)
    \/ q.body.dst \notin getNetworkKeys(q.env)
    \/ getTokensConfig(q.env).throws
    \/ oftAddressOf(getTokensConfig(q.env).tokens, q.body.tokenId, q.body.src) = NoAddress

\* C22: POST estimate-fee answers 400, and does not call quoteSend, for every
\* request that misses a parameter or names a token or a source or
\* destination network that is not configured or not supported
C22_BadFeeRequestIs400 ==
    (feeReply # None /\ feeRequestIsBad(feeRequest)) => (feeReply.code = 400 /\ ~feeReply.quoted)

\* C23: decoding the bytes buildLzReceiveOptions(gas, value) produced gives
\* back the same gas and value; for value = 0 the body of the lzReceive
\* directive is the 16-byte gas field alone and the decoded value is 0
C23_OptionsRoundTrip ==
    optionsOut # None =>
        /\ optionsOut.decoded.gas = optionsIn.gas
        /\ optionsOut.decoded.value = optionsIn.value
        /\ optionsIn.value = 0 =>
              /\ Len(fromOptions(optionsOut.hex)) = 1
              /\ fromOptions(optionsOut.hex)[1].params = uintHex(optionsIn.gas, 16)
              /\ optionsOut.decoded.value = 0

\* the default of a send, gas 200000 and value 0, encoded and decoded
C23_Witness ==
    /\ optionsOut # None
    /\ optionsIn = [gas |-> 200000, value |-> 0]
    /\ Len(optionsOut.hex) = 46
    /\ optionsOut.decoded = [gas |-> 200000, value |-> 0]

(* ---------------------- claims on the configuration ------------------- *)
complete(c) == \A f \in RequiredFields : ~falsy(f, c[f])

\* C30: every network key present in what getNetworksConfig returns has all
\* its required fields non-empty, and getNetworkConfig throws for a key
\* whose network lacks a required field
C30_NoPartialNetwork ==
    loadedConfig # None =>
        /\ ~loadedConfig.all.throws =>
              \A k \in DOMAIN loadedConfig.all.networks : complete(loadedConfig.all.networks[k])
        /\ \A k \in NetworkKeys :
              loadedConfig.one[k] # Null => complete(loadedConfig.one[k])

TypeOK ==
    /\ txHash \in {NoHash} \cup Hashes
    /\ nSent \in 0..MaxTransfers
    /\ isSending \in BOOLEAN /\ sendRunning \in BOOLEAN /\ stopped \in BOOLEAN
====
